---------------------------- MODULE Spec2Model ----------------------------
(***************************************************************************)
(* A model of the Azure pricing MCP server (src/src/azure_pricing_mcp).    *)
(*                                                                         *)
(*   Spec        the request layer: the shared AzurePricingServer, its     *)
(*               connection scope (__aenter__/__aexit__) and the retry     *)
(*               loop of _make_request, driven by two concurrent tasks.    *)
(*   SpecSku     normalize_sku_name applied to bounded input strings.      *)
(*   SpecSearch  search_azure_prices (with _validate_and_suggest_skus and  *)
(*               _apply_discount_to_items) against bounded catalog         *)
(*               responses.                                                *)
(*   SpecDiscount   _apply_discount_to_items called on bounded lists of    *)
(*               dicts with identity.                                      *)
(*   SpecRecommend  recommend_regions: the discovery queries, the choice   *)
(*               of one candidate per region, discount, ranking.           *)
(*                                                                         *)
(* Strings the code inspects character by character are sequences of       *)
(* one-character strings.  Prices are integers in units of 10^-6.          *)
(***************************************************************************)
EXTENDS Integers, Sequences, FiniteSets, TLC

VARIABLES
    \* ---- request layer (server.py 139-205, handlers.py 20-52) ----
    session,      \* AzurePricingServer.session: 0 is None, else a session id
    created,      \* number of ClientSession objects constructed so far
    open,         \* ids of the sessions constructed and not yet closed
    maxRetries,   \* the max_retries argument of _make_request
    pc,           \* per task: "ready", "get", "sleep", "unwind"
    inScope,      \* per task: inside "async with pricing_server"
    mine,         \* per task: the session its latest __aenter__ constructed
    nreq,         \* _make_request calls made so far
    attempt,      \* per task: loop variable of the current _make_request
    lastExc,      \* per task: last_exception is set
    gets,         \* per task: session.get calls of the current _make_request
    waits,        \* per task: asyncio.sleep durations of the current call
    resps,        \* per task: what each get of the current call ended in:
                  \* the JSON body of a 200, "429", "httperr", "neterr", "closed"
    result,       \* per task: how the current/last _make_request ended
    ret,          \* per task: the JSON the call returned
    raisedAt,     \* per task: attempt index whose error the call raised
    lastGet,      \* per task: session used by the latest get since the task
                  \* last entered or left the scope
    \* ---- normalize_sku_name (server.py 81-136) ----
    skuIn,        \* the sku_name argument
    skuOut,       \* the returned (search_terms, display_name)
    \* ---- search_azure_prices (server.py 207-344) ----
    sArgs,        \* the arguments of the call
    sPc,          \* "start", "validate", "done", "raised"
    sData,        \* the envelope _make_request returned to the call
    sParams,      \* the query parameters the call sent
    sItems,       \* local variable items (after truncation)
    sBroad,       \* the envelope returned to the broader validation query
    sBroadParams, \* the query parameters of the broader validation query
    sResult,      \* the returned dict
    \* ---- _apply_discount_to_items (server.py 346-378) ----
    dHeap,        \* the dicts alive: a record per address 1..Len(dHeap)
    dOrig,        \* the dicts as they were before the first call
    dIn,          \* the items argument: the addresses of its dicts
    dPct,         \* the discount_percentage argument
    dOuts,        \* the list each call returned: the addresses of its dicts
    \* ---- recommend_regions (server.py 481-650) ----
    rArgs,        \* the arguments of the call
    rPc,          \* "start", "discover", "done", "raised"
    rTerms,       \* search_terms
    rDisplay,     \* display_sku
    rQueries,     \* the search_azure_prices calls made so far, in order
    rAnswers,     \* the items each of them returned
    rDiscovery,   \* discovery_result["items"] after the loop
    rRegionData,  \* region_data after the loop over the items, in key order
    rResult,      \* the returned dict
    \* ---- compare_prices, estimate_costs, discover_skus,
    \*      discover_service_skus (server.py 396-479, 652-1021) ----
    tArgs,        \* the operation called and its arguments
    tCatalog,     \* the items of the catalog
    tPc,          \* "start", the await the operation is at, "done", "raised"
    tCalls,       \* the fetches made so far, in order: their filters and limit
    tAnswers,     \* how each of them ended: the items returned, or failed
    tLocal,       \* comparisons (compare_prices); the services still to
                  \* probe, suggestions and the returned dict
                  \* (_find_similar_services)
    tResult       \* the returned dict

reqVars == <<session, created, open, maxRetries, pc, inScope, mine, nreq,
             attempt, lastExc, gets, waits, resps, result, ret, raisedAt,
             lastGet>>
skuVars == <<skuIn, skuOut>>
searchVars == <<sArgs, sPc, sData, sParams, sItems, sBroad, sBroadParams, sResult>>
discVars == <<dHeap, dOrig, dIn, dPct, dOuts>>
recVars == <<rArgs, rPc, rTerms, rDisplay, rQueries, rAnswers, rDiscovery,
             rRegionData, rResult>>
toolVars == <<tArgs, tCatalog, tPc, tCalls, tAnswers, tLocal, tResult>>
vars == <<reqVars, skuVars, searchVars, discVars, recVars, toolVars>>

notReqVars == <<skuVars, searchVars, discVars, recVars, toolVars>>
notSkuVars == <<reqVars, searchVars, discVars, recVars, toolVars>>
notSearchVars == <<reqVars, skuVars, discVars, recVars, toolVars>>
notDiscVars == <<reqVars, skuVars, searchVars, recVars, toolVars>>
notRecVars == <<reqVars, skuVars, searchVars, discVars, toolVars>>

-----------------------------------------------------------------------------
(* Program constants *)

MAX_RESULTS_PER_REQUEST == 1000
MAX_RETRIES == 3
RATE_LIMIT_RETRY_BASE_WAIT == 5

(* Bounds of the model *)

MaxSessions == 2      \* __aenter__ calls in one behaviour
MaxRequests == 2      \* _make_request calls in one behaviour

Tasks == {"t1", "t2"}

-----------------------------------------------------------------------------
(* Sequence helpers *)

Last(s) == s[Len(s)]

Min(a, b) == IF a < b THEN a ELSE b

SeqsUpTo(S, n) == UNION {[1..k -> S] : k \in 0..n}

-----------------------------------------------------------------------------
(* The request layer *)

Statuses == {200, 429, 404, 500}
Bodies == {"j1", "j2"}

\* What one session.get can end in: a response with a status (a 200 carries a
\* JSON body), a ClientResponseError raised by the request itself, or another
\* ClientError (a network failure).
Outcomes ==
    {[kind |-> "status", status |-> 200, body |-> b] : b \in Bodies}
    \cup {[kind |-> "status", status |-> s, body |-> "-"] : s \in Statuses \ {200}}
    \cup {[kind |-> "raised", status |-> 429, body |-> "-"],
          [kind |-> "neterr", status |-> 0, body |-> "-"]}

NoGet == [sid |-> 0, wasOpen |-> FALSE]

SessionMissingNever(s) == FALSE
\* "if not self.session"
SessionMissing(s) == s = 0

CanRetryAlways(a, mr) == a <= mr
\* "attempt < max_retries"
CanRetry(a, mr) == a < mr

WaitTimeFromZero(a) == RATE_LIMIT_RETRY_BASE_WAIT * a
\* "wait_time = RATE_LIMIT_RETRY_BASE_WAIT * (attempt + 1)"
WaitTime(a) == RATE_LIMIT_RETRY_BASE_WAIT * (a + 1)

IsRateLimitOrError(status) == status >= 400
\* "response.status == 429", "e.status == 429"
IsRateLimit(status) == status = 429

\* response.raise_for_status() raises for a status of 400 and above
RaisesForStatus(status) == status >= 400

\* "for attempt in range(max_retries + 1)"
InRange(a, mr) == a >= 0 /\ a < mr + 1

ReqInit ==
    /\ session = 0
    /\ created = 0
    /\ open = {}
    /\ maxRetries \in 0..MAX_RETRIES
    /\ pc = [t \in Tasks |-> "ready"]
    /\ inScope = [t \in Tasks |-> FALSE]
    /\ mine = [t \in Tasks |-> 0]
    /\ nreq = 0
    /\ attempt = [t \in Tasks |-> 0]
    /\ lastExc = [t \in Tasks |-> FALSE]
    /\ gets = [t \in Tasks |-> 0]
    /\ waits = [t \in Tasks |-> <<>>]
    /\ resps = [t \in Tasks |-> <<>>]
    /\ result = [t \in Tasks |-> "none"]
    /\ ret = [t \in Tasks |-> "-"]
    /\ raisedAt = [t \in Tasks |-> -1]
    /\ lastGet = [t \in Tasks |-> NoGet]

\* The tasks of one event loop take turns at their awaits only: task t runs
\* when no other task is between two awaits of its tool call.
Scheduled(t) ==
    \A u \in Tasks \ {t} : ~(inScope[u] /\ pc[u] \in {"ready", "unwind"})

\* __aenter__: a new ClientSession replaces whatever self.session held.
Enter(t) ==
    /\ Scheduled(t)
    /\ pc[t] = "ready"
    /\ ~inScope[t]
    /\ created < MaxSessions
    /\ created' = created + 1
    /\ session' = created + 1
    /\ open' = open \cup {created + 1}
    /\ mine' = [mine EXCEPT ![t] = created + 1]
    /\ inScope' = [inScope EXCEPT ![t] = TRUE]
    /\ lastGet' = [lastGet EXCEPT ![t] = NoGet]
    /\ UNCHANGED <<maxRetries, pc, nreq, attempt, lastExc, gets, waits, resps,
                   result, ret, raisedAt>>
    /\ UNCHANGED notReqVars

\* __aexit__: closes the session self.session holds now; self.session is kept.
Exit(t) ==
    /\ Scheduled(t)
    /\ inScope[t]
    /\ pc[t] \in {"ready", "unwind"}
    /\ open' = IF session # 0 THEN open \ {session} ELSE open
    /\ inScope' = [inScope EXCEPT ![t] = FALSE]
    /\ pc' = [pc EXCEPT ![t] = "ready"]
    /\ lastGet' = [lastGet EXCEPT ![t] = NoGet]
    /\ UNCHANGED <<session, created, maxRetries, mine, nreq, attempt, lastExc,
                   gets, waits, resps, result, ret, raisedAt>>
    /\ UNCHANGED notReqVars

\* The top of "for attempt in range(max_retries + 1)" for index a, with g GETs
\* issued and log r so far and last_exception set or not (le): either the loop
\* body starts, evaluating self.session.get(...) on the session the server
\* holds now (a closed session, or None, refuses: "except Exception: raise"),
\* or the loop is over: "if last_exception: raise last_exception", else
\* RuntimeError("Request failed without exception").
LoopTop(t, a, g, r, le) ==
    IF InRange(a, maxRetries)
      THEN /\ gets' = [gets EXCEPT ![t] = g + 1]
           /\ lastGet' = [lastGet EXCEPT ![t] =
                 [sid |-> session, wasOpen |-> session \in open]]
           /\ IF session \in open
                THEN /\ pc' = [pc EXCEPT ![t] = "get"]
                     /\ resps' = [resps EXCEPT ![t] = r]
                     /\ result' = [result EXCEPT ![t] = "none"]
                     /\ raisedAt' = [raisedAt EXCEPT ![t] = -1]
                ELSE /\ pc' = [pc EXCEPT ![t] = "ready"]
                     /\ resps' = [resps EXCEPT ![t] = Append(r, "closed")]
                     /\ result' = [result EXCEPT ![t] = "raiseOther"]
                     /\ raisedAt' = [raisedAt EXCEPT ![t] = a]
      ELSE /\ gets' = [gets EXCEPT ![t] = g]
           /\ resps' = [resps EXCEPT ![t] = r]
           /\ pc' = [pc EXCEPT ![t] = "ready"]
           /\ result' = [result EXCEPT ![t] = IF le THEN "raise429" ELSE "raiseNoExc"]
           /\ raisedAt' = [raisedAt EXCEPT ![t] = -1]
           /\ UNCHANGED lastGet

\* A call of _make_request, up to its first await (or its raise).
MakeRequest(t) ==
    /\ Scheduled(t)
    /\ pc[t] = "ready"
    /\ nreq < MaxRequests
    /\ nreq' = nreq + 1
    /\ attempt' = [attempt EXCEPT ![t] = 0]
    /\ lastExc' = [lastExc EXCEPT ![t] = FALSE]
    /\ waits' = [waits EXCEPT ![t] = <<>>]
    /\ ret' = [ret EXCEPT ![t] = "-"]
    /\ IF SessionMissing(session)
         THEN /\ result' = [result EXCEPT ![t] = "notInit"]
              /\ gets' = [gets EXCEPT ![t] = 0]
              /\ resps' = [resps EXCEPT ![t] = <<>>]
              /\ raisedAt' = [raisedAt EXCEPT ![t] = -1]
              /\ UNCHANGED <<pc, lastGet>>
         ELSE LoopTop(t, 0, 0, <<>>, FALSE)
    /\ UNCHANGED <<session, created, open, maxRetries, inScope, mine>>
    /\ UNCHANGED notReqVars

Raise(t, how) ==
    /\ result' = [result EXCEPT ![t] = how]
    /\ raisedAt' = [raisedAt EXCEPT ![t] = attempt[t]]
    /\ pc' = [pc EXCEPT ![t] = "ready"]
    /\ UNCHANGED <<waits, lastExc, ret>>

Backoff(t, viaExcept) ==
    /\ waits' = [waits EXCEPT ![t] = Append(@, WaitTime(attempt[t]))]
    /\ lastExc' = [lastExc EXCEPT ![t] = @ \/ viaExcept]
    /\ pc' = [pc EXCEPT ![t] = "sleep"]
    /\ UNCHANGED <<result, raisedAt, ret>>

\* The awaited get ends in r: the rest of the loop body, up to the next await
\* (asyncio.sleep), the return or the raise.
Attempt(t, r) ==
    /\ Scheduled(t)
    /\ pc[t] = "get"
    /\ resps' = [resps EXCEPT ![t] = Append(@,
          IF r.kind = "neterr" THEN "neterr" ELSE
          IF r.status = 200 THEN r.body ELSE
          IF r.status = 429 THEN "429" ELSE "httperr")]
    /\ CASE r.kind = "status" /\ IsRateLimit(r.status) ->
              IF CanRetry(attempt[t], maxRetries)
                THEN Backoff(t, FALSE)
                ELSE Raise(t, "raise429")
         [] r.kind = "status" /\ ~IsRateLimit(r.status) ->
              IF RaisesForStatus(r.status)
                THEN Raise(t, "raiseHttp")
                ELSE /\ result' = [result EXCEPT ![t] = "json"]
                     /\ ret' = [ret EXCEPT ![t] = r.body]
                     /\ pc' = [pc EXCEPT ![t] = "ready"]
                     /\ UNCHANGED <<waits, lastExc, raisedAt>>
         [] r.kind = "raised" ->
              IF IsRateLimit(r.status) /\ CanRetry(attempt[t], maxRetries)
                THEN Backoff(t, TRUE)
                ELSE Raise(t, IF IsRateLimit(r.status) THEN "raise429"
                                                      ELSE "raiseHttp")
         [] r.kind = "neterr" -> Raise(t, "raiseNet")
    /\ UNCHANGED <<session, created, open, maxRetries, inScope, mine, nreq,
                   attempt, gets, lastGet>>
    /\ UNCHANGED notReqVars

\* asyncio.sleep returns; "continue" takes the next value of range(max_retries + 1).
Wake(t) ==
    /\ Scheduled(t)
    /\ pc[t] = "sleep"
    /\ attempt' = [attempt EXCEPT ![t] = @ + 1]
    /\ LoopTop(t, attempt[t] + 1, gets[t], resps[t], lastExc[t])
    /\ UNCHANGED <<session, created, open, maxRetries, inScope, mine, nreq,
                   lastExc, waits, ret>>
    /\ UNCHANGED notReqVars

\* The task is cancelled at an await of a tool call: CancelledError leaves
\* _make_request and the handler, through __aexit__.
Cancel(t) ==
    /\ Scheduled(t)
    /\ pc[t] \in {"get", "sleep"}
    /\ inScope[t]
    /\ result' = [result EXCEPT ![t] = "cancelled"]
    /\ pc' = [pc EXCEPT ![t] = "unwind"]
    /\ UNCHANGED <<session, created, open, maxRetries, inScope, mine, nreq,
                   attempt, lastExc, gets, waits, resps, ret, raisedAt, lastGet>>
    /\ UNCHANGED notReqVars

ReqNext ==
    \E t \in Tasks :
        \/ Enter(t)
        \/ Exit(t)
        \/ MakeRequest(t)
        \/ \E r \in Outcomes : Attempt(t, r)
        \/ Wake(t)
        \/ Cancel(t)

-----------------------------------------------------------------------------
(* Strings as sequences of characters *)

Range(s) == {s[i] : i \in 1..Len(s)}

\* str.startswith
StartsWith(s, p) == Len(s) >= Len(p) /\ SubSeq(s, 1, Len(p)) = p

\* str.replace of one character by another
Replace(s, a, b) == [i \in 1..Len(s) |-> IF s[i] = a THEN b ELSE s[i]]

IsSpace(c) == c \in {" ", "\t"}

RECURSIVE LStrip(_)
LStrip(s) == IF s # <<>> /\ IsSpace(Head(s)) THEN LStrip(Tail(s)) ELSE s

RECURSIVE RStrip(_)
RStrip(s) == IF s # <<>> /\ IsSpace(Last(s)) THEN RStrip(SubSeq(s, 1, Len(s) - 1)) ELSE s

\* str.strip
Strip(s) == RStrip(LStrip(s))

\* str.lower on the letters the model's strings use
LowerChar(c) ==
    CASE c = "S" -> "s" [] c = "T" -> "t" [] c = "A" -> "a" [] c = "N" -> "n"
      [] c = "D" -> "d" [] c = "R" -> "r" [] c = "B" -> "b" [] c = "I" -> "i"
      [] c = "C" -> "c" [] c = "V" -> "v" [] c = "M" -> "m" [] c = "K" -> "k"
      [] c = "F" -> "f" [] c = "G" -> "g" [] c = "L" -> "l" [] c = "O" -> "o"
      [] c = "E" -> "e" [] c = "H" -> "h" [] c = "J" -> "j" [] c = "P" -> "p"
      [] c = "Q" -> "q" [] c = "U" -> "u" [] c = "W" -> "w" [] c = "X" -> "x"
      [] c = "Y" -> "y" [] c = "Z" -> "z" [] OTHER -> c

Lower(s) == [i \in 1..Len(s) |-> LowerChar(s[i])]

-----------------------------------------------------------------------------
(* normalize_sku_name *)

Standard_ == <<"S", "t", "a", "n", "d", "a", "r", "d", "_">>
Basic_ == <<"B", "a", "s", "i", "c", "_">>
standard_ == <<"s", "t", "a", "n", "d", "a", "r", "d", "_">>
basic_ == <<"b", "a", "s", "i", "c", "_">>

\* prefixes_to_remove
PrefixesToRemove == <<Standard_, Basic_, standard_, basic_>>

\* "for prefix in prefixes_to_remove: if normalized.startswith(prefix): ...; break"
RECURSIVE RemovePrefix(_, _)
RemovePrefix(s, prefixes) ==
    IF prefixes = <<>> THEN s
    ELSE IF StartsWith(s, Head(prefixes))
           THEN SubSeq(s, Len(Head(prefixes)) + 1, Len(s))
           ELSE RemovePrefix(s, Tail(prefixes))

AppendAlways(terms, x) == Append(terms, x)
\* "if x not in search_terms: search_terms.append(x)"
AppendIfNew(terms, x) == IF x \in Range(terms) THEN terms ELSE Append(terms, x)

SearchTermsSpaceFirst(normalized) ==
    AppendIfNew(AppendIfNew(AppendIfNew(<<>>, Replace(normalized, "_", " ")),
                            Replace(normalized, " ", "_")), normalized)
\* the three variants, in the order the code appends them
SearchTerms(normalized) ==
    AppendIfNew(AppendIfNew(AppendIfNew(<<>>, Replace(normalized, " ", "_")),
                            Replace(normalized, "_", " ")), normalized)

normalize_sku_name(sku_name) ==
    IF sku_name = <<>>
      THEN [terms |-> <<>>, display |-> <<>>]
      ELSE LET original == Strip(sku_name)
               normalized == RemovePrefix(original, PrefixesToRemove)
           IN [terms |-> SearchTerms(normalized),
               display |-> Replace(normalized, "_", " ")]

(* Bounded inputs: optional surrounding whitespace, an optional prefix in one of
   several spellings (possibly doubled), and a short body; plus the two names
   the documentation quotes. *)
MaxBodyLen == 3

BodyChars == {"D", "4", "_", " "}

PrefixSpellings ==
    {<<>>, Standard_, Basic_, standard_, basic_,
     <<"S", "T", "A", "N", "D", "A", "R", "D", "_">>,
     <<"B", "a", "S", "i", "C", "_">>,
     Standard_ \o Standard_, Basic_ \o standard_}

Standard_D4s_v5 == Standard_ \o <<"D", "4", "s", "_", "v", "5">>
D4s_v5 == <<"D", "4", "s", "_", "v", "5">>
D4s_sp_v5 == <<"D", "4", "s", " ", "v", "5">>
D4s_sp_v3 == <<"D", "4", "s", " ", "v", "3">>
D4s_v3 == <<"D", "4", "s", "_", "v", "3">>
D4s == <<"D", "4", "s">>

SkuInputs ==
    {lead \o pre \o body \o trail :
        lead \in {<<>>, <<" ">>}, pre \in PrefixSpellings,
        body \in SeqsUpTo(BodyChars, MaxBodyLen), trail \in {<<>>, <<" ">>, <<"\t">>}}
    \cup {Standard_D4s_v5, D4s_sp_v3}

NoSkuOut == [done |-> FALSE, terms |-> <<>>, display |-> <<>>]

SkuInit ==
    /\ skuIn \in SkuInputs
    /\ skuOut = NoSkuOut

Normalize ==
    /\ ~skuOut.done
    /\ skuOut' = [done |-> TRUE,
                  terms |-> normalize_sku_name(skuIn).terms,
                  display |-> normalize_sku_name(skuIn).display]
    /\ UNCHANGED skuIn
    /\ UNCHANGED notSkuVars

SkuNext == Normalize

-----------------------------------------------------------------------------
(* Price records and the discount *)

\* A catalog item.  skuName <<>> stands for an item without a SKU name;
\* hasPrice FALSE for one without "retailPrice"; hasOriginal says whether the
\* record carries "originalPrice".
Plan(term, price) ==
    [term |-> term, hasPrice |-> TRUE, retailPrice |-> price,
     hasOriginal |-> FALSE, originalPrice |-> 0]

Item(sku, hasPrice, price, plans) ==
    [meterId |-> 0, skuName |-> sku, hasPrice |-> hasPrice, retailPrice |-> price,
     hasOriginal |-> FALSE, originalPrice |-> 0, savingsPlan |-> plans]

\* round(x, 6) of x = n / 100 in units of 10^-6, ties to the even neighbour
RoundHalfEven100(n) ==
    LET q == n \div 100
        r == n % 100
    IN IF r > 50 \/ (r = 50 /\ q % 2 = 1) THEN q + 1 ELSE q

\* "round(original_price * (1 - discount_percentage / 100), 6)"
DiscountedPrice(price, pct) == RoundHalfEven100(price * (100 - pct))

\* "if 'retailPrice' in x and x['retailPrice']: ..." on a copy of x
DiscountRecord(x, pct) ==
    IF x.hasPrice /\ x.retailPrice # 0
      THEN [x EXCEPT !.retailPrice = DiscountedPrice(x.retailPrice, pct),
                     !.hasOriginal = TRUE,
                     !.originalPrice = x.retailPrice]
      ELSE x

DiscountItem(item, pct) ==
    LET d == DiscountRecord(item, pct)
    IN IF item.savingsPlan # <<>>
         THEN [d EXCEPT !.savingsPlan =
                 [i \in 1..Len(item.savingsPlan) |-> DiscountRecord(item.savingsPlan[i], pct)]]
         ELSE d

ApplyDiscountDroppingUnpriced(items, pct) ==
    SelectSeq([i \in 1..Len(items) |-> DiscountItem(items[i], pct)],
              LAMBDA x : x.hasOriginal)
\* _apply_discount_to_items
ApplyDiscountToItems(items, pct) ==
    IF items = <<>> THEN <<>>
    ELSE [i \in 1..Len(items) |-> DiscountItem(items[i], pct)]

-----------------------------------------------------------------------------
(* _apply_discount_to_items on dicts with identity: a heap is a sequence of
   records and the address of a dict is its index; a list of dicts is a
   sequence of addresses, and so is the "savingsPlan" of an item. *)

CopyAlias(heap, a) == [heap |-> heap, addr |-> a]
\* "item.copy()", "plan.copy()": a new dict with the fields of the old one
CopyRecord(heap, a) == [heap |-> Append(heap, heap[a]), addr |-> Len(heap) + 1]

\* lines 357-361 and 368-372: the price is read from the dict at a, the
\* discounted price and the original are written to its copy at c
WriteDiscount(heap, a, c, pct) ==
    IF heap[a].hasPrice /\ heap[a].retailPrice # 0
      THEN LET original_price == heap[a].retailPrice
           IN [heap EXCEPT ![c] = [@ EXCEPT !.retailPrice = DiscountedPrice(original_price, pct),
                                            !.hasOriginal = TRUE,
                                            !.originalPrice = original_price]]
      ELSE heap

\* lines 365-373: the loop over item["savingsPlan"]
RECURSIVE DiscountPlansOnHeap(_, _, _, _)
DiscountPlansOnHeap(heap, plans, pct, discounted_savings) ==
    IF plans = <<>> THEN [heap |-> heap, list |-> discounted_savings]
    ELSE LET c == CopyRecord(heap, Head(plans))
         IN DiscountPlansOnHeap(WriteDiscount(c.heap, Head(plans), c.addr, pct),
                                Tail(plans), pct, Append(discounted_savings, c.addr))

\* lines 354-376: one iteration of "for item in items"
DiscountItemOnHeap(heap, a, pct) ==
    LET c == CopyRecord(heap, a)
        h == WriteDiscount(c.heap, a, c.addr, pct)
    IN IF h[a].savingsPlan # <<>>
         THEN LET p == DiscountPlansOnHeap(h, h[a].savingsPlan, pct, <<>>)
              IN [heap |-> [p.heap EXCEPT ![c.addr].savingsPlan = p.list], addr |-> c.addr]
         ELSE [heap |-> h, addr |-> c.addr]

RECURSIVE DiscountItemsOnHeap(_, _, _, _)
DiscountItemsOnHeap(heap, items, pct, discounted_items) ==
    IF items = <<>> THEN [heap |-> heap, list |-> discounted_items]
    ELSE LET d == DiscountItemOnHeap(heap, Head(items), pct)
         IN DiscountItemsOnHeap(d.heap, Tail(items), pct, Append(discounted_items, d.addr))

\* _apply_discount_to_items: the heap after the call and the returned list
ApplyDiscountOnHeap(heap, items, pct) ==
    IF items = <<>> THEN [heap |-> heap, list |-> <<>>]
    ELSE DiscountItemsOnHeap(heap, items, pct, <<>>)

\* the dict at address a with the dicts of its savings plans in place of their
\* addresses
ItemValue(heap, a) ==
    [heap[a] EXCEPT !.savingsPlan = [i \in 1..Len(heap[a].savingsPlan) |->
                                       heap[heap[a].savingsPlan[i]]]]

ListValue(heap, list) == [i \in 1..Len(list) |-> ItemValue(heap, list[i])]

\* the dicts of a list of items, laid out on a heap: each item is followed by
\* its savings plans
RECURSIVE LoadItems(_, _, _)
LoadItems(items, heap, list) ==
    IF items = <<>> THEN [heap |-> heap, list |-> list]
    ELSE LET it == Head(items)
             a == Len(heap) + 1
             plans == [i \in 1..Len(it.savingsPlan) |-> a + i]
         IN LoadItems(Tail(items),
                      heap \o <<[it EXCEPT !.savingsPlan = plans]>> \o it.savingsPlan,
                      Append(list, a))

MaxDiscountItems == 2   \* items in the list given to _apply_discount_to_items
MaxDiscountCalls == 2   \* calls on the same list

\* records with a price of 100 units, with plans (priced, free, negative, unpriced),
\* without a price, with a price of zero, a negative price and a price whose
\* half is a rounding tie
DiscountPool ==
    {Item(D4s_sp_v3, TRUE, 100, <<>>),
     Item(D4s_sp_v3, TRUE, 96000, <<Plan("1 Year", 66000), Plan("3 Years", 0)>>),
     Item(D4s_sp_v5, FALSE, 0, <<Plan("1 Year", -5),
                                 [Plan("3 Years", 0) EXCEPT !.hasPrice = FALSE]>>),
     Item(D4s_sp_v5, TRUE, 0, <<>>),
     Item(D4s_sp_v5, TRUE, -1000000, <<>>),
     Item(D4s_sp_v5, TRUE, 5, <<>>)}

DiscountPercentages == {10, 20, 50, 100}

DiscInit ==
    /\ \E items \in SeqsUpTo(DiscountPool, MaxDiscountItems) :
          /\ dHeap = LoadItems(items, <<>>, <<>>).heap
          /\ dIn = LoadItems(items, <<>>, <<>>).list
    /\ dOrig = dHeap
    /\ dPct \in DiscountPercentages
    /\ dOuts = <<>>

\* one call of _apply_discount_to_items(items, discount_percentage)
ApplyDiscount ==
    /\ Len(dOuts) < MaxDiscountCalls
    /\ LET r == ApplyDiscountOnHeap(dHeap, dIn, dPct)
       IN /\ dHeap' = r.heap
          /\ dOuts' = Append(dOuts, r.list)
    /\ UNCHANGED <<dOrig, dIn, dPct>>
    /\ UNCHANGED notDiscVars

-----------------------------------------------------------------------------
(* search_azure_prices and _validate_and_suggest_skus *)

ClarificationThreshold == 10   \* "len(items) > 10"
ClarificationSamples == 5      \* "items[:5]"
MaxSuggestions == 5            \* "len(unique_suggestions) >= 5"
BroadSearchLimit == 100        \* "limit=100"

MaxItems == 3        \* items in one catalog response
MaxLimit == 2        \* the caller's limit (besides MAX_RESULTS_PER_REQUEST)
MaxBroadItems == 2   \* items in the response to the broader validation query

ItemPool ==
    {Item(D4s_sp_v3, TRUE, 96000, <<>>),
     Item(<<>>, FALSE, 0, <<Plan("1 Year", 66000)>>),
     Item(D4s_sp_v5, TRUE, 100000, <<>>)}

\* meterId records the position of an item in the upstream response
Stamp(items) == [i \in 1..Len(items) |-> [items[i] EXCEPT !.meterId = i]]

\* SKU names "D4s v1", "D4s v2", ...
SkuV(k) == D4s \o <<" ", "v", k>>

\* n priced items with the names "D4s v1", "D4s v2", ... (repeating after v9),
\* the item at position k (if any) carrying no SKU name
NamedItems(n, k) ==
    LET versions == <<"1", "2", "3", "4", "5", "6", "7", "8", "9">>
    IN [i \in 1..n |->
          Item(IF i = k THEN <<>> ELSE SkuV(versions[((i - 1) % 9) + 1]),
               TRUE, 96000 + i, <<>>)]

\* catalog responses around the clarification threshold
LongItemLists ==
    {NamedItems(10, 0), NamedItems(11, 0), NamedItems(15, 0), NamedItems(15, 2)}

Responses ==
    {[Items |-> Stamp(its), NextPageLink |-> n] :
        its \in SeqsUpTo(ItemPool, MaxItems), n \in BOOLEAN}
    \cup {[Items |-> Stamp(its), NextPageLink |-> TRUE] : its \in LongItemLists}

\* answers to the broader query with repeated, unnamed and unrelated SKUs
BroadItemLists ==
    {<<Item(SkuV("1"), TRUE, 96000, <<>>), Item(<<"B", "2">>, TRUE, 50000, <<>>),
       Item(SkuV("1"), TRUE, 97000, <<>>), Item(SkuV("2"), TRUE, 98000, <<>>),
       Item(<<>>, TRUE, 10000, <<>>), Item(SkuV("3"), FALSE, 0, <<>>),
       Item(SkuV("2"), TRUE, 99000, <<>>)>>,
     <<Item(<<"D", "4">>, TRUE, 40000, <<>>), Item(<<"B", "2">>, TRUE, 50000, <<>>),
       Item(SkuV("1"), TRUE, 96000, <<>>)>>,
     <<Item(SkuV("1"), TRUE, 1, <<>>), Item(SkuV("2"), TRUE, 2, <<>>),
       Item(SkuV("2"), TRUE, 3, <<>>), Item(SkuV("3"), TRUE, 4, <<>>),
       Item(SkuV("4"), TRUE, 5, <<>>), Item(SkuV("5"), TRUE, 6, <<>>),
       Item(SkuV("6"), TRUE, 7, <<>>), Item(SkuV("7"), TRUE, 8, <<>>)>>}

BroadResponses ==
    {[Items |-> Stamp(its), NextPageLink |-> FALSE] :
        its \in SeqsUpTo(ItemPool, MaxBroadItems) \cup BroadItemLists}

NoData == [Items |-> <<>>, NextPageLink |-> FALSE]

NoFilters ==
    [service_name |-> "", service_family |-> "", region |-> "",
     sku_name |-> <<>>, price_type |-> ""]

FilterPresets ==
    {NoFilters,
     [service_name |-> "Virtual Machines", service_family |-> "", region |-> "",
      sku_name |-> D4s, price_type |-> ""],
     [service_name |-> "", service_family |-> "", region |-> "eastus",
      sku_name |-> D4s, price_type |-> ""],
     [service_name |-> "Virtual Machines", service_family |-> "Compute",
      region |-> "eastus", sku_name |-> <<>>, price_type |-> "Consumption"]}

\* discount_percentage: None, or a percentage
DiscountChoices ==
    {[given |-> FALSE, pct |-> 0]} \cup {[given |-> TRUE, pct |-> p] : p \in {-10, 0, 10, 100}}

SearchArgs ==
    {[filters |-> f, currency_code |-> "USD", limit |-> l, discount |-> d,
      validate_sku |-> v] :
        f \in FilterPresets, l \in (0..MaxLimit) \cup {MAX_RESULTS_PER_REQUEST},
        d \in DiscountChoices, v \in BOOLEAN}

\* filter_conditions: which conditions are appended, in the code's order
FilterConditions(f) ==
    (IF f.service_name # "" THEN <<"serviceName">> ELSE <<>>)
    \o (IF f.service_family # "" THEN <<"serviceFamily">> ELSE <<>>)
    \o (IF f.region # "" THEN <<"armRegionName">> ELSE <<>>)
    \o (IF f.sku_name # <<>> THEN <<"skuName">> ELSE <<>>)
    \o (IF f.price_type # "" THEN <<"priceType">> ELSE <<>>)

\* params: the filter, and "$top" when limit < MAX_RESULTS_PER_REQUEST
QueryParams(f, currency, limit) ==
    [currencyCode |-> currency, filter |-> FilterConditions(f), values |-> f,
     hasTop |-> limit < MAX_RESULTS_PER_REQUEST,
     top |-> IF limit < MAX_RESULTS_PER_REQUEST THEN limit ELSE 0]

NoParams == [currencyCode |-> "", filter |-> <<>>, values |-> NoFilters,
             hasTop |-> FALSE, top |-> 0]

TruncateOffByOne(items, limit) ==
    IF Len(items) > limit THEN SubSeq(items, 1, limit + 1) ELSE items
\* "if len(items) > limit: items = items[:limit]"
Truncate(items, limit) ==
    IF Len(items) > limit THEN SubSeq(items, 1, limit) ELSE items

\* "x in y" on strings
Contains(hay, needle) ==
    \E i \in 0..(Len(hay) - Len(needle)) : SubSeq(hay, i + 1, i + Len(needle)) = needle

\* str.split(): the maximal runs of non-whitespace characters
RECURSIVE SplitFrom(_, _)
SplitFrom(s, word) ==
    IF s = <<>> THEN (IF word = <<>> THEN <<>> ELSE <<word>>)
    ELSE IF IsSpace(Head(s))
           THEN (IF word = <<>> THEN <<>> ELSE <<word>>) \o SplitFrom(Tail(s), <<>>)
           ELSE SplitFrom(Tail(s), Append(word, Head(s)))

Split(s) == SplitFrom(s, <<>>)

\* the test of lines 311-315 on one item's SKU name
PartiallyMatches(sku_name, item_sku) ==
    LET sku_lower == Lower(sku_name)
        item_sku_lower == Lower(item_sku)
        words == Split(sku_lower)
    IN \/ Contains(item_sku_lower, sku_lower)
       \/ Contains(sku_lower, item_sku_lower)
       \/ \E k \in 1..Len(words) : Contains(item_sku_lower, words[k])

Suggestion(item) ==
    [sku_name |-> item.skuName,
     price |-> IF item.hasPrice THEN item.retailPrice ELSE 0]

\* lines 305-324: the suggestions collected from the broader search's items
Suggestions(sku_name, items) ==
    LET matching == SelectSeq(items,
            LAMBDA it : it.skuName # <<>> /\ PartiallyMatches(sku_name, it.skuName))
    IN [i \in 1..Len(matching) |-> Suggestion(matching[i])]

RECURSIVE UniqueSuggestionsNoSeen(_, _, _)
UniqueSuggestionsNoSeen(suggestions, seen, acc) ==
    IF suggestions = <<>> THEN acc
    ELSE IF Len(acc) + 1 >= MaxSuggestions
           THEN Append(acc, Head(suggestions))
           ELSE UniqueSuggestionsNoSeen(Tail(suggestions), seen, Append(acc, Head(suggestions)))
\* lines 327-335: first occurrence of each SKU name, at most MaxSuggestions
RECURSIVE UniqueSuggestions(_, _, _)
UniqueSuggestions(suggestions, seen, acc) ==
    IF suggestions = <<>> THEN acc
    ELSE LET sg == Head(suggestions)
         IN IF sg.sku_name \in seen
              THEN UniqueSuggestions(Tail(suggestions), seen, acc)
              ELSE IF Len(acc) + 1 >= MaxSuggestions
                     THEN Append(acc, sg)
                     ELSE UniqueSuggestions(Tail(suggestions),
                                            seen \cup {sg.sku_name}, Append(acc, sg))

NoValidationInfo ==
    [hasSkuValidation |-> FALSE, hasClarification |-> FALSE,
     original_sku |-> <<>>, found |-> FALSE, suggestions |-> <<>>,
     clarificationCount |-> 0, clarificationSuggestions |-> <<>>]

\* lines 337-344: the dict _validate_and_suggest_skus returns
SkuValidation(sku_name, broadItems) ==
    [NoValidationInfo EXCEPT
        !.hasSkuValidation = TRUE,
        !.original_sku = sku_name,
        !.found = FALSE,
        !.suggestions = UniqueSuggestions(Suggestions(sku_name, broadItems), {}, <<>>)]

\* lines 261-264
Clarification(items) ==
    LET firstItems == SubSeq(items, 1, Min(ClarificationSamples, Len(items)))
        named == SelectSeq(firstItems, LAMBDA it : it.skuName # <<>>)
    IN [NoValidationInfo EXCEPT
          !.hasClarification = TRUE,
          !.clarificationCount = Len(items),
          !.clarificationSuggestions = [i \in 1..Len(named) |-> named[i].skuName]]

\* "validate_sku and sku_name and not items"
NeedsValidation(validate_sku, sku_name, items) ==
    validate_sku /\ sku_name # <<>> /\ items = <<>>

NeedsClarificationAnySearch(validate_sku, sku_name, items) ==
    validate_sku /\ Len(items) > ClarificationThreshold
\* "elif validate_sku and sku_name and isinstance(items, list) and len(items) > 10"
NeedsClarification(validate_sku, sku_name, items) ==
    /\ ~NeedsValidation(validate_sku, sku_name, items)
    /\ validate_sku /\ sku_name # <<>> /\ Len(items) > ClarificationThreshold

\* the parameters of the broader search of _validate_and_suggest_skus
BroadQueryParams(service_name, currency) ==
    QueryParams([NoFilters EXCEPT !.service_name = service_name], currency, BroadSearchLimit)

NoResult ==
    [items |-> <<>>, count |-> 0, has_more |-> FALSE, currency |-> "",
     filters_applied |-> <<>>, hasDiscountApplied |-> FALSE, discountPercentage |-> 0,
     info |-> NoValidationInfo]

DiscountRequestedFromZero(d) == d.given /\ d.pct >= 0
\* "discount_percentage is not None and discount_percentage > 0"
DiscountRequested(d) == d.given /\ d.pct > 0

\* lines 266-286: discount, result dict, validation info
BuildResult(args, data, items, info) ==
    LET final == IF DiscountRequested(args.discount)
                   THEN ApplyDiscountToItems(items, args.discount.pct)
                   ELSE items
    IN [items |-> final,
        count |-> Len(final),
        has_more |-> data.NextPageLink,
        currency |-> args.currency_code,
        filters_applied |-> FilterConditions(args.filters),
        hasDiscountApplied |-> DiscountRequested(args.discount),
        discountPercentage |-> IF DiscountRequested(args.discount)
                                 THEN args.discount.pct ELSE 0,
        info |-> info]

SearchInit ==
    /\ sArgs \in SearchArgs
    /\ sPc = "start"
    /\ sData = NoData
    /\ sParams = NoParams
    /\ sItems = <<>>
    /\ sBroad = NoData
    /\ sBroadParams = NoParams
    /\ sResult = NoResult

\* _make_request raises: search_azure_prices lets the error through
SearchRequestFails ==
    /\ sPc = "start"
    /\ sPc' = "raised"
    /\ sParams' = QueryParams(sArgs.filters, sArgs.currency_code, sArgs.limit)
    /\ UNCHANGED <<sArgs, sData, sItems, sBroad, sBroadParams, sResult>>
    /\ UNCHANGED notSearchVars

\* lines 221-286 with the response data, up to the return or to the await of
\* _validate_and_suggest_skus
SearchResponse(data) ==
    /\ sPc = "start"
    /\ sParams' = QueryParams(sArgs.filters, sArgs.currency_code, sArgs.limit)
    /\ sData' = data
    /\ LET items == Truncate(data.Items, sArgs.limit)
           sku == sArgs.filters.sku_name
       IN /\ sItems' = items
          /\ IF NeedsValidation(sArgs.validate_sku, sku, items)
               THEN /\ sPc' = "validate"
                    /\ UNCHANGED sResult
               ELSE /\ sPc' = "done"
                    /\ sResult' = BuildResult(sArgs, data, items,
                          IF NeedsClarification(sArgs.validate_sku, sku, items)
                            THEN Clarification(items)
                            ELSE NoValidationInfo)
    /\ UNCHANGED <<sArgs, sBroad, sBroadParams>>
    /\ UNCHANGED notSearchVars

\* _validate_and_suggest_skus: with a service name, the broader search
\*   search_azure_prices(service_name, currency_code, limit=100, validate_sku=False)
\* answered with `broad`; then the rest of the outer call.
SearchValidate(broad) ==
    /\ sPc = "validate"
    /\ LET sku == sArgs.filters.sku_name
           service == sArgs.filters.service_name
           broadItems == IF service # ""
                           THEN Truncate(broad.Items, BroadSearchLimit)
                           ELSE <<>>
       IN /\ sBroad' = IF service # "" THEN broad ELSE NoData
          /\ sBroadParams' = IF service # ""
                               THEN BroadQueryParams(service, sArgs.currency_code)
                               ELSE NoParams
          /\ sResult' = BuildResult(sArgs, sData, sItems, SkuValidation(sku, broadItems))
    /\ sPc' = "done"
    /\ UNCHANGED <<sArgs, sData, sParams, sItems>>
    /\ UNCHANGED notSearchVars

\* the broader search's request fails: the error leaves the outer call too
SearchValidateFails ==
    /\ sPc = "validate"
    /\ sArgs.filters.service_name # ""
    /\ sPc' = "raised"
    /\ sBroadParams' = BroadQueryParams(sArgs.filters.service_name, sArgs.currency_code)
    /\ UNCHANGED <<sArgs, sData, sParams, sItems, sBroad, sResult>>
    /\ UNCHANGED notSearchVars

SearchNext ==
    \/ SearchRequestFails
    \/ \E data \in Responses : SearchResponse(data)
    \/ \E broad \in BroadResponses : SearchValidate(broad)
    \/ SearchValidateFails

-----------------------------------------------------------------------------
(* recommend_regions *)

DiscoveryLimit == 500   \* "limit=500"

MaxRegionItems == 3     \* items in one answer to a discovery query

Spot == <<"S", "p", "o", "t">>
LowPriority == <<"L", "o", "w", " ", "P", "r", "i", "o", "r", "i", "t", "y">>

\* A catalog item as recommend_regions reads it: armRegionName "" stands for
\* an item without a region, hasPrice FALSE for one without "retailPrice".
RegionItem(region, hasPrice, price, sku, meter) ==
    [armRegionName |-> region, hasPrice |-> hasPrice, retailPrice |-> price,
     skuName |-> sku, meterName |-> meter]

\* lines 548-550
PricingType(sku_name_item, meter_name) ==
    LET is_spot == Contains(sku_name_item, Spot) \/ Contains(meter_name, Spot)
        is_low_priority == Contains(sku_name_item, LowPriority)
                           \/ Contains(meter_name, LowPriority)
    IN IF is_spot THEN "Spot" ELSE IF is_low_priority THEN "Low Priority" ELSE "On-Demand"

\* "item.get('retailPrice', 0)"
PriceOf(item) == IF item.hasPrice THEN item.retailPrice ELSE 0

UsableAnyPrice(region, price) == region # "" /\ price # 0
\* "if region and price and price > 0"
Usable(region, price) == region # "" /\ price # 0 /\ price > 0

RegionIndexNone(region_data, region) == 0
\* "region_data.get(region)": the position of the region's entry, 0 for None
RegionIndex(region_data, region) ==
    IF \E i \in 1..Len(region_data) : region_data[i].region = region
      THEN CHOOSE i \in 1..Len(region_data) : region_data[i].region = region
      ELSE 0

ShouldReplaceCheaper(hasExisting, existing, pricing_type, price) ==
    ~hasExisting \/ price < existing.retail_price
\* lines 558-567
ShouldReplace(hasExisting, existing, pricing_type, price) ==
    IF ~hasExisting THEN TRUE
    ELSE IF pricing_type = "On-Demand" /\ existing.pricing_type # "On-Demand" THEN TRUE
    ELSE pricing_type = existing.pricing_type /\ price < existing.retail_price

\* lines 570-579
Candidate(item) ==
    [region |-> item.armRegionName,
     retail_price |-> PriceOf(item),
     sku_name |-> item.skuName,
     meter_name |-> item.meterName,
     pricing_type |-> PricingType(item.skuName, item.meterName),
     hasOriginal |-> FALSE, original_price |-> 0,
     hasSavings |-> FALSE, savings_vs_most_expensive |-> 0]

\* lines 539-579: the loop over discovery_result["items"]; region_data keeps
\* its keys in the order of their first insertion
RECURSIVE BuildRegionData(_, _)
BuildRegionData(items, region_data) ==
    IF items = <<>> THEN region_data
    ELSE LET item == Head(items)
             region == item.armRegionName
             price == PriceOf(item)
             k == RegionIndex(region_data, region)
             existing == IF k = 0 THEN Candidate(item) ELSE region_data[k]
             next == IF Usable(region, price)
                        /\ ShouldReplace(k # 0, existing,
                                         PricingType(item.skuName, item.meterName), price)
                       THEN IF k = 0 THEN Append(region_data, Candidate(item))
                                     ELSE [region_data EXCEPT ![k] = Candidate(item)]
                       ELSE region_data
         IN BuildRegionData(Tail(items), next)

\* lines 595-600
DiscountRecommendation(rec, pct) ==
    [rec EXCEPT !.hasOriginal = TRUE,
                !.original_price = rec.retail_price,
                !.retail_price = DiscountedPrice(rec.retail_price, pct)]

InsertAtEnd(sorted, rec) == Append(sorted, rec)
\* list.sort(key=retail_price): stable, ascending
RECURSIVE InsertByPrice(_, _)
InsertByPrice(sorted, rec) ==
    IF sorted = <<>> THEN <<rec>>
    ELSE IF Last(sorted).retail_price <= rec.retail_price
           THEN Append(sorted, rec)
           ELSE Append(InsertByPrice(SubSeq(sorted, 1, Len(sorted) - 1), rec), Last(sorted))

RECURSIVE SortByPrice(_, _)
SortByPrice(recs, sorted) ==
    IF recs = <<>> THEN sorted
    ELSE SortByPrice(Tail(recs), InsertByPrice(sorted, Head(recs)))

FirstPrice(recs) == IF recs = <<>> THEN 0 ELSE Head(recs).retail_price
\* "max(r.get('retail_price', 0) for r in recommendations)"
RECURSIVE MaxPrice(_)
MaxPrice(recs) ==
    IF recs = <<>> THEN 0
    ELSE LET m == MaxPrice(Tail(recs))
         IN IF Len(recs) = 1 \/ Head(recs).retail_price > m
              THEN Head(recs).retail_price ELSE m

\* n / d rounded to the nearest integer, ties to the even one (d > 0, n >= 0)
RoundDiv(n, d) ==
    LET q == n \div d
        r == n % d
    IN IF 2 * r > d \/ (2 * r = d /\ q % 2 = 1) THEN q + 1 ELSE q

\* "round(((max_price - price) / max_price) * 100, 2)" in hundredths of a percent
SavingsVsMax(price, max_price) ==
    IF max_price > 0
      THEN LET whole == ((max_price - price) * 100) \div max_price
               rest == ((max_price - price) * 100) % max_price
           IN whole * 100 + RoundDiv(rest * 100, max_price)
      ELSE 0

NoRecommendation ==
    [error |-> "", sku_name |-> <<>>,
     hasSearchTerms |-> FALSE, search_terms_tried |-> <<>>,
     total_regions_found |-> 0, showing_top |-> 0, recommendations |-> <<>>,
     hasSummary |-> FALSE, cheapest_region |-> "", cheapest_price |-> 0,
     most_expensive_region |-> "", most_expensive_price |-> 0,
     max_savings_percentage |-> 0,
     hasDiscountApplied |-> FALSE, discountPercentage |-> 0]

\* lines 527-650: the result for the discovered items
RecommendResult(args, terms, display, items) ==
    LET region_data == BuildRegionData(items, <<>>)
        discounted == IF DiscountRequested(args.discount)
                        THEN [i \in 1..Len(region_data) |->
                                DiscountRecommendation(region_data[i], args.discount.pct)]
                        ELSE region_data
        sorted == SortByPrice(discounted, <<>>)
        max_price == MaxPrice(sorted)
        recommendations ==
            [i \in 1..Len(sorted) |->
                [sorted[i] EXCEPT !.hasSavings = TRUE,
                                  !.savings_vs_most_expensive =
                                      SavingsVsMax(sorted[i].retail_price, max_price)]]
    IN IF items = <<>>
         THEN [NoRecommendation EXCEPT !.error = "No pricing found",
                                       !.sku_name = display,
                                       !.hasSearchTerms = TRUE,
                                       !.search_terms_tried = terms]
       ELSE IF region_data = <<>>
         THEN [NoRecommendation EXCEPT !.error = "No regions with valid pricing found",
                                       !.sku_name = display]
       ELSE [NoRecommendation EXCEPT
               !.sku_name = display,
               !.total_regions_found = Len(recommendations),
               !.showing_top = Min(args.top_n, Len(recommendations)),
               !.recommendations = SubSeq(recommendations, 1,
                                          Min(args.top_n, Len(recommendations))),
               !.hasSummary = TRUE,
               !.cheapest_region = recommendations[1].region,
               !.cheapest_price = recommendations[1].retail_price,
               !.most_expensive_region = Last(recommendations).region,
               !.most_expensive_price = Last(recommendations).retail_price,
               !.max_savings_percentage = recommendations[1].savings_vs_most_expensive,
               !.hasDiscountApplied = TRUE /\ DiscountRequested(args.discount),
               !.discountPercentage = IF DiscountRequested(args.discount)
                                        THEN args.discount.pct ELSE 0]

\* the search_azure_prices call of lines 517-523 for one search term
DiscoveryQuery(service_name, search_term, currency) ==
    [params |-> QueryParams([NoFilters EXCEPT !.service_name = service_name,
                                              !.sku_name = search_term],
                            currency, DiscoveryLimit),
     validate_sku |-> FALSE]

StopDiscoveryNever(items) == FALSE
\* "if discovery_result.get('items'): break"
StopDiscovery(items) == items # <<>>

RegionItemPool ==
    {RegionItem("eastus", TRUE, 1000000, D4s_sp_v5, D4s_sp_v5),
     RegionItem("eastus", TRUE, 100000, D4s_sp_v5 \o <<" ">> \o Spot, D4s_sp_v5),
     RegionItem("eastus", TRUE, 500000, D4s_sp_v5, D4s_sp_v5),
     RegionItem("westus", TRUE, 2000000, D4s_sp_v5, D4s_sp_v5),
     RegionItem("westus", TRUE, 200000, D4s_sp_v5, D4s_sp_v5 \o <<" ">> \o LowPriority),
     RegionItem("westus", TRUE, -100000, D4s_sp_v5, D4s_sp_v5),
     RegionItem("eastus", FALSE, 0, D4s_sp_v5, D4s_sp_v5)}

\* answers of up to MaxRegionItems items, one with an item without a region,
\* one with three regions priced 2.0, 4.0 and 1.0, and one with a Spot and a
\* Low Priority item of one region
DiscoveryAnswers ==
    {[Items |-> its, NextPageLink |-> FALSE] :
        its \in SeqsUpTo(RegionItemPool, MaxRegionItems)
                \cup {<<RegionItem("", TRUE, 300000, D4s_sp_v5, D4s_sp_v5),
                        RegionItem("westus", TRUE, 2000000, D4s_sp_v5, D4s_sp_v5)>>,
                      <<RegionItem("westus", TRUE, 2000000, D4s_sp_v5, D4s_sp_v5),
                        RegionItem("northeurope", TRUE, 4000000, D4s_sp_v5, D4s_sp_v5),
                        RegionItem("eastus", TRUE, 1000000, D4s_sp_v5, D4s_sp_v5)>>,
                      <<RegionItem("eastus", TRUE, 100000,
                                   D4s_sp_v5 \o <<" ">> \o Spot, D4s_sp_v5),
                        RegionItem("eastus", TRUE, 50000,
                                   D4s_sp_v5, D4s_sp_v5 \o <<" ">> \o LowPriority)>>}}

\* sku_name inputs giving two, three and no search terms; top_n 0, 1 and the
\* default 10; no discount, 10 % and 100 %
RecommendArgs ==
    {[service_name |-> "Virtual Machines", sku_name |-> k, top_n |-> n,
      currency_code |-> "USD", discount |-> d] :
        k \in {Standard_D4s_v5},
        n \in {0, 1, 10},
        d \in {[given |-> FALSE, pct |-> 0], [given |-> TRUE, pct |-> 10],
               [given |-> TRUE, pct |-> 100]}}
    \cup
    {[service_name |-> "Virtual Machines", sku_name |-> k, top_n |-> 10,
      currency_code |-> "USD", discount |-> [given |-> FALSE, pct |-> 0]] :
        k \in {<<"D", " ", "_">>, <<>>}}

RecInit ==
    /\ rArgs \in RecommendArgs
    /\ rPc = "start"
    /\ rTerms = <<>>
    /\ rDisplay = <<>>
    /\ rQueries = <<>>
    /\ rAnswers = <<>>
    /\ rDiscovery = <<>>
    /\ rRegionData = <<>>
    /\ rResult = NoRecommendation

\* the loop of lines 516-525 at the search term of position k, or past the
\* last one, with the items of the latest answer: the next query, or the rest
\* of the function
DiscoveryLoop(terms, display, k, items) ==
    IF k <= Len(terms) /\ ~(k > 1 /\ StopDiscovery(items))
      THEN /\ rQueries' = Append(rQueries,
                  DiscoveryQuery(rArgs.service_name, terms[k], rArgs.currency_code))
           /\ rPc' = "discover"
           /\ UNCHANGED <<rDiscovery, rRegionData, rResult>>
      ELSE /\ rPc' = "done"
           /\ rDiscovery' = items
           /\ rRegionData' = BuildRegionData(items, <<>>)
           /\ rResult' = RecommendResult(rArgs, terms, display, items)
           /\ UNCHANGED rQueries

\* lines 508-523: normalize_sku_name and the first discovery query
RecommendStart ==
    /\ rPc = "start"
    /\ LET n == normalize_sku_name(rArgs.sku_name)
       IN /\ rTerms' = n.terms
          /\ rDisplay' = n.display
          /\ DiscoveryLoop(n.terms, n.display, 1, <<>>)
    /\ UNCHANGED <<rArgs, rAnswers>>
    /\ UNCHANGED notRecVars

\* the awaited search_azure_prices returns: limit 500, no validation, no discount
DiscoveryResponse(data) ==
    /\ rPc = "discover"
    /\ LET items == Truncate(data.Items, DiscoveryLimit)
       IN /\ rAnswers' = Append(rAnswers, items)
          /\ DiscoveryLoop(rTerms, rDisplay, Len(rQueries) + 1, items)
    /\ UNCHANGED <<rArgs, rTerms, rDisplay>>
    /\ UNCHANGED notRecVars

\* the awaited search_azure_prices raises: the error leaves recommend_regions
DiscoveryFails ==
    /\ rPc = "discover"
    /\ rPc' = "raised"
    /\ UNCHANGED <<rArgs, rTerms, rDisplay, rQueries, rAnswers, rDiscovery,
                   rRegionData, rResult>>
    /\ UNCHANGED notRecVars

-----------------------------------------------------------------------------
(* compare_prices, estimate_costs, discover_skus and discover_service_skus
   (with search_azure_prices_with_fuzzy_matching and _find_similar_services).
   The catalog is a list of items; a fetch answers with the items that match
   the filter it was sent, or fails. Service and SKU names are sequences of
   characters. An awaited search_azure_prices is one step: it returns its
   items or raises (its own fetches are the subject of the sections above). *)

MaxCatalogItems == 2    \* items in the catalog

\* "x in SERVICE_NAME_MAPPINGS", "SERVICE_NAME_MAPPINGS.items()": the table as
\* the list of its (user term, Azure service name) pairs
SERVICE_NAME_MAPPINGS ==
    <<<<<<"a", "p", "p", " ", "s", "e", "r", "v", "i", "c", "e">>,
        <<"A", "z", "u", "r", "e", " ", "A", "p", "p", " ", "S", "e", "r", "v", "i", "c", "e">>>>,
      <<<<"w", "e", "b", " ", "a", "p", "p">>,
        <<"A", "z", "u", "r", "e", " ", "A", "p", "p", " ", "S", "e", "r", "v", "i", "c", "e">>>>,
      <<<<"w", "e", "b", " ", "a", "p", "p", "s">>,
        <<"A", "z", "u", "r", "e", " ", "A", "p", "p", " ", "S", "e", "r", "v", "i", "c", "e">>>>,
      <<<<"a", "p", "p", " ", "s", "e", "r", "v", "i", "c", "e", "s">>,
        <<"A", "z", "u", "r", "e", " ", "A", "p", "p", " ", "S", "e", "r", "v", "i", "c", "e">>>>,
      <<<<"w", "e", "b", "s", "i", "t", "e", "s">>,
        <<"A", "z", "u", "r", "e", " ", "A", "p", "p", " ", "S", "e", "r", "v", "i", "c", "e">>>>,
      <<<<"w", "e", "b", " ", "s", "e", "r", "v", "i", "c", "e">>,
        <<"A", "z", "u", "r", "e", " ", "A", "p", "p", " ", "S", "e", "r", "v", "i", "c", "e">>>>,
      <<<<"v", "i", "r", "t", "u", "a", "l", " ", "m", "a", "c", "h", "i", "n", "e">>,
        <<"V", "i", "r", "t", "u", "a", "l", " ", "M", "a", "c", "h", "i", "n", "e", "s">>>>,
      <<<<"v", "m">>,
        <<"V", "i", "r", "t", "u", "a", "l", " ", "M", "a", "c", "h", "i", "n", "e", "s">>>>,
      <<<<"v", "m", "s">>,
        <<"V", "i", "r", "t", "u", "a", "l", " ", "M", "a", "c", "h", "i", "n", "e", "s">>>>,
      <<<<"c", "o", "m", "p", "u", "t", "e">>,
        <<"V", "i", "r", "t", "u", "a", "l", " ", "M", "a", "c", "h", "i", "n", "e", "s">>>>,
      <<<<"s", "t", "o", "r", "a", "g", "e">>,
        <<"S", "t", "o", "r", "a", "g", "e">>>>,
      <<<<"b", "l", "o", "b">>,
        <<"S", "t", "o", "r", "a", "g", "e">>>>,
      <<<<"b", "l", "o", "b", " ", "s", "t", "o", "r", "a", "g", "e">>,
        <<"S", "t", "o", "r", "a", "g", "e">>>>,
      <<<<"f", "i", "l", "e", " ", "s", "t", "o", "r", "a", "g", "e">>,
        <<"S", "t", "o", "r", "a", "g", "e">>>>,
      <<<<"d", "i", "s", "k">>,
        <<"S", "t", "o", "r", "a", "g", "e">>>>,
      <<<<"s", "q", "l">>,
        <<"A", "z", "u", "r", "e", " ", "S", "Q", "L", " ", "D", "a", "t", "a", "b", "a", "s", "e">>>>,
      <<<<"s", "q", "l", " ", "d", "a", "t", "a", "b", "a", "s", "e">>,
        <<"A", "z", "u", "r", "e", " ", "S", "Q", "L", " ", "D", "a", "t", "a", "b", "a", "s", "e">>>>,
      <<<<"d", "a", "t", "a", "b", "a", "s", "e">>,
        <<"A", "z", "u", "r", "e", " ", "S", "Q", "L", " ", "D", "a", "t", "a", "b", "a", "s", "e">>>>,
      <<<<"s", "q", "l", " ", "s", "e", "r", "v", "e", "r">>,
        <<"A", "z", "u", "r", "e", " ", "S", "Q", "L", " ", "D", "a", "t", "a", "b", "a", "s", "e">>>>,
      <<<<"c", "o", "s", "m", "o", "s">>,
        <<"A", "z", "u", "r", "e", " ", "C", "o", "s", "m", "o", "s", " ", "D", "B">>>>,
      <<<<"c", "o", "s", "m", "o", "s", "d", "b">>,
        <<"A", "z", "u", "r", "e", " ", "C", "o", "s", "m", "o", "s", " ", "D", "B">>>>,
      <<<<"c", "o", "s", "m", "o", "s", " ", "d", "b">>,
        <<"A", "z", "u", "r", "e", " ", "C", "o", "s", "m", "o", "s", " ", "D", "B">>>>,
      <<<<"d", "o", "c", "u", "m", "e", "n", "t", " ", "d", "b">>,
        <<"A", "z", "u", "r", "e", " ", "C", "o", "s", "m", "o", "s", " ", "D", "B">>>>,
      <<<<"k", "u", "b", "e", "r", "n", "e", "t", "e", "s">>,
        <<"A", "z", "u", "r", "e", " ", "K", "u", "b", "e", "r", "n", "e", "t", "e", "s", " ", "S", "e", "r", "v", "i", "c", "e">>>>,
      <<<<"a", "k", "s">>,
        <<"A", "z", "u", "r", "e", " ", "K", "u", "b", "e", "r", "n", "e", "t", "e", "s", " ", "S", "e", "r", "v", "i", "c", "e">>>>,
      <<<<"k", "8", "s">>,
        <<"A", "z", "u", "r", "e", " ", "K", "u", "b", "e", "r", "n", "e", "t", "e", "s", " ", "S", "e", "r", "v", "i", "c", "e">>>>,
      <<<<"c", "o", "n", "t", "a", "i", "n", "e", "r", " ", "s", "e", "r", "v", "i", "c", "e">>,
        <<"A", "z", "u", "r", "e", " ", "K", "u", "b", "e", "r", "n", "e", "t", "e", "s", " ", "S", "e", "r", "v", "i", "c", "e">>>>,
      <<<<"f", "u", "n", "c", "t", "i", "o", "n", "s">>,
        <<"A", "z", "u", "r", "e", " ", "F", "u", "n", "c", "t", "i", "o", "n", "s">>>>,
      <<<<"f", "u", "n", "c", "t", "i", "o", "n", " ", "a", "p", "p">>,
        <<"A", "z", "u", "r", "e", " ", "F", "u", "n", "c", "t", "i", "o", "n", "s">>>>,
      <<<<"s", "e", "r", "v", "e", "r", "l", "e", "s", "s">>,
        <<"A", "z", "u", "r", "e", " ", "F", "u", "n", "c", "t", "i", "o", "n", "s">>>>,
      <<<<"r", "e", "d", "i", "s">>,
        <<"A", "z", "u", "r", "e", " ", "C", "a", "c", "h", "e", " ", "f", "o", "r", " ", "R", "e", "d", "i", "s">>>>,
      <<<<"c", "a", "c", "h", "e">>,
        <<"A", "z", "u", "r", "e", " ", "C", "a", "c", "h", "e", " ", "f", "o", "r", " ", "R", "e", "d", "i", "s">>>>,
      <<<<"a", "i">>,
        <<"A", "z", "u", "r", "e", " ", "A", "I", " ", "s", "e", "r", "v", "i", "c", "e", "s">>>>,
      <<<<"c", "o", "g", "n", "i", "t", "i", "v", "e">>,
        <<"A", "z", "u", "r", "e", " ", "A", "I", " ", "s", "e", "r", "v", "i", "c", "e", "s">>>>,
      <<<<"c", "o", "g", "n", "i", "t", "i", "v", "e", " ", "s", "e", "r", "v", "i", "c", "e", "s">>,
        <<"A", "z", "u", "r", "e", " ", "A", "I", " ", "s", "e", "r", "v", "i", "c", "e", "s">>>>,
      <<<<"o", "p", "e", "n", "a", "i">>,
        <<"A", "z", "u", "r", "e", " ", "O", "p", "e", "n", "A", "I">>>>,
      <<<<"n", "e", "t", "w", "o", "r", "k", "i", "n", "g">>,
        <<"V", "i", "r", "t", "u", "a", "l", " ", "N", "e", "t", "w", "o", "r", "k">>>>,
      <<<<"n", "e", "t", "w", "o", "r", "k">>,
        <<"V", "i", "r", "t", "u", "a", "l", " ", "N", "e", "t", "w", "o", "r", "k">>>>,
      <<<<"v", "n", "e", "t">>,
        <<"V", "i", "r", "t", "u", "a", "l", " ", "N", "e", "t", "w", "o", "r", "k">>>>,
      <<<<"l", "o", "a", "d", " ", "b", "a", "l", "a", "n", "c", "e", "r">>,
        <<"L", "o", "a", "d", " ", "B", "a", "l", "a", "n", "c", "e", "r">>>>,
      <<<<"l", "b">>,
        <<"L", "o", "a", "d", " ", "B", "a", "l", "a", "n", "c", "e", "r">>>>,
      <<<<"a", "p", "p", "l", "i", "c", "a", "t", "i", "o", "n", " ", "g", "a", "t", "e", "w", "a", "y">>,
        <<"A", "p", "p", "l", "i", "c", "a", "t", "i", "o", "n", " ", "G", "a", "t", "e", "w", "a", "y">>>>,
      <<<<"a", "p", "p", " ", "g", "a", "t", "e", "w", "a", "y">>,
        <<"A", "p", "p", "l", "i", "c", "a", "t", "i", "o", "n", " ", "G", "a", "t", "e", "w", "a", "y">>>>>>

\* a catalog item (priceType "Consumption"); productName is taken to be the
\* service name followed by the SKU name
CatalogItem(service, sku, region, price, plans) ==
    [serviceName |-> service, productName |-> service \o <<" ">> \o sku,
     skuName |-> sku, armRegionName |-> region, priceType |-> "Consumption",
     meterId |-> 0, hasPrice |-> TRUE, retailPrice |-> price,
     hasOriginal |-> FALSE, originalPrice |-> 0, savingsPlan |-> plans]

ToolCatalogs ==
    SeqsUpTo({CatalogItem(<<"A", "z", "u", "r", "e", " ", "A", "I", " ", "s", "e", "r", "v", "i", "c", "e", "s">>,
                          <<"S", "0">>, "eastus", 1000000, <<>>),
              CatalogItem(<<"A", "z", "u", "r", "e", " ", "A", "I", " ", "s", "e", "r", "v", "i", "c", "e", "s">>,
                          <<"S", "1">>, "westus", 2000000, <<>>),
              CatalogItem(<<"A", "z", "u", "r", "e", " ", "K", "u", "b", "e", "r", "n", "e", "t", "e", "s", " ", "S", "e", "r", "v", "i", "c", "e">>,
                          <<"S", "t", "a", "n", "d", "a", "r", "d">>, "eastus", 100000, <<>>),
              CatalogItem(<<"A", "z", "u", "r", "e", " ", "A", "p", "p", " ", "S", "e", "r", "v", "i", "c", "e">>,
                          <<"B", "1">>, "westus", 500000, <<>>),
              CatalogItem(<<"V", "i", "r", "t", "u", "a", "l", " ", "M", "a", "c", "h", "i", "n", "e", "s">>,
                          <<"D", "4", "s", " ", "v", "5">>, "eastus", 200000, <<Plan("1 Year", 150000)>>),
              CatalogItem(<<"V", "i", "r", "t", "u", "a", "l", " ", "M", "a", "c", "h", "i", "n", "e", "s">>,
                          <<"D", "4", "s", " ", "v", "3">>, "westus", 0, <<>>)},
             MaxCatalogItems)

\* the arguments of one call of one of the four operations; region "" and
\* sku_name <<>> stand for None
ToolArgs ==
    LET ai == <<"A", "z", "u", "r", "e", " ", "A", "I", " ",
                "s", "e", "r", "v", "i", "c", "e", "s">>
        vm == <<"V", "i", "r", "t", "u", "a", "l", " ",
                "M", "a", "c", "h", "i", "n", "e", "s">>
        call(op, service, sku, regions, region, d) ==
            [op |-> op, service_name |-> service, sku_name |-> sku,
             regions |-> regions, region |-> region, price_type |-> "Consumption",
             limit |-> IF op = "discover_skus" THEN 100 ELSE 30,
             discount |-> d]
        none == [given |-> FALSE, pct |-> 0]
        discounts == {none, [given |-> TRUE, pct |-> 10], [given |-> TRUE, pct |-> 100]}
    IN {call("compare_prices", s, <<>>, r, "", d) :
            s \in {ai, vm}, r \in {<<>>, <<"eastus", "westus">>}, d \in discounts}
       \cup {call("estimate_costs", vm, D4s, <<>>, "eastus", d) : d \in discounts}
       \cup {call("discover_skus", ai, <<>>, <<>>, r, none) : r \in {"", "eastus"}}
       \cup {call("discover_service_skus", hint, <<>>, <<>>, r, none) :
                hint \in {<<"a", "i">>, <<"A", "I">>, <<"a", "p", "p">>,
                          <<"m", "a", "c", "h", "i", "n", "e", "s">>, ai},
                r \in {"", "eastus"}}

SearchCallDiscounted(service_name, region, sku_name, limit) ==
    [service_name |-> service_name, region |-> region, sku_name |-> sku_name,
     price_type |-> "", limit |-> limit, discount |-> tArgs.discount]
\* a call of search_azure_prices by one of the operations: service_family and
\* price_type are never passed, and neither is discount_percentage (None)
SearchCall(service_name, region, sku_name, limit) ==
    [service_name |-> service_name, region |-> region, sku_name |-> sku_name,
     price_type |-> "", limit |-> limit, discount |-> [given |-> FALSE, pct |-> 0]]

\* data["Items"] of the fetch for a call: the catalog's items that satisfy
\* the filter conditions sent, at most "$top" of them
CatalogAnswer(catalog, call) ==
    LET matching ==
            SelectSeq(catalog, LAMBDA item :
                /\ call.service_name # <<>> => item.serviceName = call.service_name
                /\ call.region # "" => item.armRegionName = call.region
                /\ call.sku_name # <<>> => Contains(item.skuName, call.sku_name)
                /\ call.price_type # "" => item.priceType = call.price_type)
    IN IF call.limit < MAX_RESULTS_PER_REQUEST /\ Len(matching) > call.limit
         THEN SubSeq(matching, 1, call.limit) ELSE matching

\* result["items"] of search_azure_prices for a call
SearchItems(catalog, call) ==
    LET items == Truncate(CatalogAnswer(catalog, call), call.limit)
    IN IF DiscountRequested(call.discount)
         THEN ApplyDiscountToItems(items, call.discount.pct)
         ELSE items

\* compare_prices at the region of position k (or at its one search when no
\* regions are given, k = 1) with the comparisons collected so far: the next
\* search, or the rest of the function (discount, sort, result)
CompareLoop(k, comparisons) ==
    IF k <= Len(tArgs.regions) \/ (tArgs.regions = <<>> /\ k = 1)
      THEN /\ tCalls' = Append(tCalls,
                  IF tArgs.regions # <<>>
                    THEN SearchCall(tArgs.service_name, tArgs.regions[k],
                                    tArgs.sku_name, 10)
                    ELSE SearchCall(tArgs.service_name, "", <<>>, 20))
           /\ tPc' = "compare"
           /\ tLocal' = [tLocal EXCEPT !.comparisons = comparisons]
           /\ UNCHANGED tResult
      ELSE LET discounted ==
                   [i \in 1..Len(comparisons) |->
                       IF DiscountRequested(tArgs.discount)
                          /\ comparisons[i].retail_price # 0
                         THEN [comparisons[i] EXCEPT
                                 !.retail_price =
                                     DiscountedPrice(comparisons[i].retail_price,
                                                     tArgs.discount.pct),
                                 !.hasOriginal = TRUE,
                                 !.original_price = comparisons[i].retail_price]
                         ELSE comparisons[i]]
           IN /\ tPc' = "done"
              /\ tLocal' = [tLocal EXCEPT !.comparisons = comparisons]
              /\ tResult' = [comparisons |-> SortByPrice(discounted, <<>>),
                             service_name |-> tArgs.service_name,
                             comparison_type |->
                                 IF tArgs.regions # <<>> THEN "regions" ELSE "skus",
                             hasDiscountApplied |-> DiscountRequested(tArgs.discount),
                             discountPercentage |->
                                 IF DiscountRequested(tArgs.discount)
                                   THEN tArgs.discount.pct ELSE 0]
              /\ UNCHANGED tCalls

PartialMatchesNone(search_term) == {}
\* the services of the table whose user term contains, or is contained in,
\* the search term
PartialMatches(search_term) ==
    {SERVICE_NAME_MAPPINGS[i][2] :
        i \in {j \in 1..Len(SERVICE_NAME_MAPPINGS) :
                  \/ Contains(SERVICE_NAME_MAPPINGS[j][1], search_term)
                  \/ Contains(search_term, SERVICE_NAME_MAPPINGS[j][1])}}

\* lines 967-1021: the result of discover_service_skus for the result of the
\* fuzzy search; skus is the set of the values of the dict
ServiceSkus(items, suggestion_used, match_type, suggestions) ==
    LET names == {items[i].skuName : i \in 1..Len(items)}
        prices(n) == SelectSeq([i \in 1..Len(items) |->
                                   [sku |-> items[i].skuName,
                                    price |-> PriceOf(items[i]),
                                    region |-> items[i].armRegionName]],
                               LAMBDA p : p.sku = n)
        valid(n) == {prices(n)[i].price : i \in {j \in 1..Len(prices(n)) :
                                                   prices(n)[j].price > 0}}
    IN IF items # <<>>
         THEN [service_found |-> suggestion_used,
               original_search |-> tArgs.service_name,
               skus |-> {[sku_name |-> n,
                          prices |-> [i \in 1..Len(prices(n)) |->
                                        [price |-> prices(n)[i].price,
                                         region |-> prices(n)[i].region]],
                          regions |-> {prices(n)[i].region : i \in 1..Len(prices(n))},
                          min_price |-> IF valid(n) # {}
                                          THEN CHOOSE p \in valid(n) :
                                                  \A q \in valid(n) : p <= q
                                          ELSE prices(n)[1].price] : n \in names},
               total_skus |-> Cardinality(names),
               suggestions |-> <<>>,
               match_type |-> match_type]
         ELSE [service_found |-> <<>>,
               original_search |-> tArgs.service_name,
               skus |-> {},
               total_skus |-> 0,
               suggestions |-> suggestions,
               match_type |-> "no_match"]

\* _find_similar_services in one of its two loops ("partial": lines 891-901,
\* "service": lines 920-933) with the services still to probe and the
\* suggestions collected: the next probe, the broad search after the first
\* loop when there is no suggestion, or the return of lines 935-943 and the
\* rest of discover_service_skus
SimilarStep(stage, pending, suggestions) ==
    IF pending # <<>>
      THEN /\ tCalls' = Append(tCalls, SearchCall(Head(pending), "", <<>>,
                                                  IF stage = "partial" THEN 5 ELSE 3))
           /\ tPc' = stage
           /\ tLocal' = [tLocal EXCEPT !.pending = pending,
                                       !.suggestions = suggestions]
           /\ UNCHANGED tResult
    ELSE IF stage = "partial" /\ suggestions = <<>>
      THEN /\ tCalls' = Append(tCalls, SearchCall(<<>>, "", <<>>, 100))
           /\ tPc' = "broad"
           /\ tLocal' = [tLocal EXCEPT !.pending = <<>>, !.suggestions = <<>>]
           /\ UNCHANGED tResult
      ELSE /\ tPc' = "done"
           /\ tLocal' = [tLocal EXCEPT
                 !.pending = <<>>,
                 !.suggestions = suggestions,
                 !.similar = [returned |-> TRUE, items |-> <<>>,
                              suggestions |-> suggestions,
                              match_type |-> "suggestions_only"]]
           /\ tResult' = ServiceSkus(<<>>, <<>>, "suggestions_only", suggestions)
           /\ UNCHANGED tCalls

ToolInit ==
    /\ tArgs \in ToolArgs
    /\ tCatalog \in ToolCatalogs
    /\ tPc = "start"
    /\ tCalls = <<>>
    /\ tAnswers = <<>>
    /\ tLocal = [comparisons |-> <<>>, pending |-> <<>>, suggestions |-> <<>>,
                 similar |-> [returned |-> FALSE, items |-> <<>>,
                              suggestions |-> <<>>, match_type |-> ""]]
    /\ tResult = [error |-> ""]

\* the operation is called and runs up to its first await
ToolCall ==
    /\ tPc = "start"
    /\ CASE tArgs.op = "compare_prices" -> CompareLoop(1, <<>>)
         [] tArgs.op = "estimate_costs" ->
              /\ tCalls' = <<SearchCall(tArgs.service_name, tArgs.region,
                                        tArgs.sku_name, 5)>>
              /\ tPc' = "estimate"
              /\ UNCHANGED <<tLocal, tResult>>
         [] tArgs.op = "discover_skus" ->
              /\ tCalls' = <<[service_name |-> tArgs.service_name,
                              region |-> tArgs.region, sku_name |-> <<>>,
                              price_type |-> tArgs.price_type,
                              limit |-> tArgs.limit,
                              discount |-> [given |-> FALSE, pct |-> 0]]>>
              /\ tPc' = "discover"
              /\ UNCHANGED <<tLocal, tResult>>
         [] tArgs.op = "discover_service_skus" ->
              /\ tCalls' = <<SearchCall(tArgs.service_name, tArgs.region,
                                        <<>>, tArgs.limit)>>
              /\ tPc' = "exact"
              /\ UNCHANGED <<tLocal, tResult>>
    /\ UNCHANGED <<tArgs, tCatalog, tAnswers>>
    /\ UNCHANGED <<reqVars, skuVars, searchVars, discVars, recVars>>

\* compare_prices: the awaited search returns (lines 417-432, 437-452)
CompareResponse ==
    /\ tPc = "compare"
    /\ LET items == SearchItems(tCatalog, Last(tCalls))
           comparison(item, region) ==
               [region |-> region, sku_name |-> item.skuName,
                retail_price |-> item.retailPrice,
                hasOriginal |-> FALSE, original_price |-> 0]
           first == SelectSeq([i \in 1..Len(items) |-> i], LAMBDA i :
                        /\ items[i].skuName # <<>>
                        /\ \A j \in 1..(i - 1) : items[j].skuName # items[i].skuName)
       IN /\ tAnswers' = Append(tAnswers, [failed |-> FALSE, items |-> items])
          /\ IF tArgs.regions # <<>>
               THEN CompareLoop(Len(tCalls) + 1,
                        IF items # <<>>
                          THEN Append(tLocal.comparisons,
                                      comparison(items[1], tArgs.regions[Len(tCalls)]))
                          ELSE tLocal.comparisons)
               ELSE CompareLoop(2, [n \in 1..Len(first) |->
                                      comparison(items[first[n]],
                                                 items[first[n]].armRegionName)])
    /\ UNCHANGED <<tArgs, tCatalog>>
    /\ UNCHANGED <<reqVars, skuVars, searchVars, discVars, recVars>>

\* compare_prices: the awaited search of a region raises; "except Exception"
\* logs a warning and the loop goes on (lines 433-434)
CompareRegionFails ==
    /\ tPc = "compare"
    /\ tArgs.regions # <<>>
    /\ tAnswers' = Append(tAnswers, [failed |-> TRUE, items |-> <<>>])
    /\ CompareLoop(Len(tCalls) + 1, tLocal.comparisons)
    /\ UNCHANGED <<tArgs, tCatalog>>
    /\ UNCHANGED <<reqVars, skuVars, searchVars, discVars, recVars>>

\* estimate_costs: the awaited search returns (lines 668-753); the cost
\* fields, products of the hourly rates and the hours, are left out
EstimateResponse ==
    /\ tPc = "estimate"
    /\ LET items == SearchItems(tCatalog, Last(tCalls))
           item == items[1]
           d == DiscountRequested(tArgs.discount)
           rate(price) == IF d THEN DiscountedPrice(price, tArgs.discount.pct) ELSE price
       IN /\ tAnswers' = Append(tAnswers, [failed |-> FALSE, items |-> items])
          /\ tResult' =
               IF items = <<>>
                 THEN [error |-> "No pricing found", sku_name |-> tArgs.sku_name,
                       region |-> tArgs.region]
                 ELSE [error |-> "", sku_name |-> item.skuName, region |-> tArgs.region,
                       hourly_rate |-> rate(PriceOf(item)),
                       hasOriginal |-> d,
                       original_hourly_rate |-> IF d THEN PriceOf(item) ELSE 0,
                       savings_plans |->
                           [i \in 1..Len(item.savingsPlan) |->
                               [term |-> item.savingsPlan[i].term,
                                hourly_rate |-> rate(PriceOf(item.savingsPlan[i])),
                                hasOriginal |-> d,
                                original_hourly_rate |->
                                    IF d THEN PriceOf(item.savingsPlan[i]) ELSE 0]],
                       hasDiscountApplied |-> d,
                       discountPercentage |-> IF d THEN tArgs.discount.pct ELSE 0]
    /\ tPc' = "done"
    /\ UNCHANGED <<tArgs, tCatalog, tCalls, tLocal>>
    /\ UNCHANGED <<reqVars, skuVars, searchVars, discVars, recVars>>

\* discover_skus: the awaited _make_request returns (lines 782-820); the loop
\* assigns item.get("armRegionName") to the variable region, the parameter;
\* skus is the set of the entries of the sorted list
DiscoverSkusResponse ==
    /\ tPc = "discover"
    /\ LET items == CatalogAnswer(tCatalog, Last(tCalls))
           names == {items[i].skuName : i \in 1..Len(items)} \ {<<>>}
           first(n) == CHOOSE i \in 1..Len(items) :
                          /\ items[i].skuName = n
                          /\ \A j \in 1..(i - 1) : items[j].skuName # n
           regions(n) == SelectSeq([i \in 1..Len(items) |-> i], LAMBDA i :
                            /\ items[i].skuName = n
                            /\ items[i].armRegionName # ""
                            /\ \A j \in 1..(i - 1) :
                                  items[j].skuName = n =>
                                     items[j].armRegionName # items[i].armRegionName)
           region == IF items = <<>> THEN tArgs.region ELSE Last(items).armRegionName
       IN /\ tAnswers' = Append(tAnswers, [failed |-> FALSE, items |-> items])
          /\ tResult' =
               [service_name |-> tArgs.service_name,
                skus |-> {[sku_name |-> n,
                           sample_price |-> PriceOf(items[first(n)]),
                           sample_region |-> items[first(n)].armRegionName,
                           available_regions |->
                               [k \in 1..Len(regions(n)) |->
                                   items[regions(n)[k]].armRegionName]] : n \in names},
                total_skus |-> Cardinality(names),
                price_type |-> tArgs.price_type,
                region_filter |-> region]
    /\ tPc' = "done"
    /\ UNCHANGED <<tArgs, tCatalog, tCalls, tLocal>>
    /\ UNCHANGED <<reqVars, skuVars, searchVars, discVars, recVars>>

\* discover_service_skus: an awaited search returns, in
\* search_azure_prices_with_fuzzy_matching ("exact", lines 837-859) or in
\* _find_similar_services ("mapping": lines 874-882, "partial": 891-901,
\* "broad": 904-918, "service": 920-933). list(set(...)) gives the services
\* in an arbitrary order.
ResolveResponse ==
    /\ tPc \in {"exact", "mapping", "partial", "broad", "service"}
    /\ LET items == SearchItems(tCatalog, Last(tCalls))
           search_term == Lower(tArgs.service_name)
           mapped == {i \in 1..Len(SERVICE_NAME_MAPPINGS) :
                          SERVICE_NAME_MAPPINGS[i][1] = search_term}
           correct_name == SERVICE_NAME_MAPPINGS[CHOOSE i \in mapped : TRUE][2]
           Orderings(S) ==
               {f \in [1..Cardinality(S) -> S] :
                   \A i, j \in 1..Cardinality(S) : f[i] = f[j] => i = j}
           partial == \E order \in Orderings(PartialMatches(search_term)) :
                          SimilarStep("partial", order, <<>>)
           matching_services ==
               {items[i].serviceName : i \in {j \in 1..Len(items) :
                   \/ Contains(Lower(items[j].serviceName), search_term)
                   \/ Contains(Lower(items[j].productName), search_term)
                   \/ \E w \in 1..Len(Split(search_term)) :
                         Contains(Lower(items[j].serviceName), Split(search_term)[w])}}
           suggested ==
               IF items # <<>>
                 THEN Append(tLocal.suggestions,
                             [service_name |-> Head(tLocal.pending),
                              sample_items |->
                                  Truncate(items, IF tPc = "partial" THEN 3 ELSE 2)])
                 ELSE tLocal.suggestions
       IN /\ tAnswers' = Append(tAnswers, [failed |-> FALSE, items |-> items])
          /\ CASE tPc = "exact" ->
                    IF items # <<>> \/ tArgs.service_name = <<>>
                      THEN /\ tPc' = "done"
                           /\ tResult' = ServiceSkus(items, tArgs.service_name,
                                                     "exact", <<>>)
                           /\ UNCHANGED <<tCalls, tLocal>>
                    ELSE IF mapped # {}
                      THEN /\ tCalls' = Append(tCalls,
                                  SearchCall(correct_name, "", <<>>, tArgs.limit))
                           /\ tPc' = "mapping"
                           /\ UNCHANGED <<tLocal, tResult>>
                      ELSE partial
               [] tPc = "mapping" ->
                    IF items # <<>>
                      THEN /\ tPc' = "done"
                           /\ tLocal' = [tLocal EXCEPT !.similar =
                                 [returned |-> TRUE, items |-> items,
                                  suggestions |-> <<>>,
                                  match_type |-> "exact_mapping"]]
                           /\ tResult' = ServiceSkus(items, correct_name,
                                                     "exact_mapping", <<>>)
                           /\ UNCHANGED tCalls
                      ELSE partial
               [] tPc = "partial" -> SimilarStep("partial", Tail(tLocal.pending), suggested)
               [] tPc = "broad" ->
                    \E order \in Orderings(matching_services) :
                        SimilarStep("service", Truncate(order, 5), <<>>)
               [] tPc = "service" -> SimilarStep("service", Tail(tLocal.pending), suggested)
    /\ UNCHANGED <<tArgs, tCatalog>>
    /\ UNCHANGED <<reqVars, skuVars, searchVars, discVars, recVars>>

\* an awaited fetch raises outside a try: the error leaves the operation
ToolFails ==
    /\ \/ tPc \in {"estimate", "discover", "exact", "mapping", "partial", "broad",
                   "service"}
       \/ (tPc = "compare" /\ tArgs.regions = <<>>)
    /\ tAnswers' = Append(tAnswers, [failed |-> TRUE, items |-> <<>>])
    /\ tPc' = "raised"
    /\ UNCHANGED <<tArgs, tCatalog, tCalls, tLocal, tResult>>
    /\ UNCHANGED <<reqVars, skuVars, searchVars, discVars, recVars>>

-----------------------------------------------------------------------------
(* Specifications *)

ReqIdle ==
    /\ session = 0 /\ created = 0 /\ open = {} /\ maxRetries = MAX_RETRIES
    /\ pc = [t \in Tasks |-> "ready"]
    /\ inScope = [t \in Tasks |-> FALSE]
    /\ mine = [t \in Tasks |-> 0]
    /\ nreq = 0
    /\ attempt = [t \in Tasks |-> 0]
    /\ lastExc = [t \in Tasks |-> FALSE]
    /\ gets = [t \in Tasks |-> 0]
    /\ waits = [t \in Tasks |-> <<>>]
    /\ resps = [t \in Tasks |-> <<>>]
    /\ result = [t \in Tasks |-> "none"]
    /\ ret = [t \in Tasks |-> "-"]
    /\ raisedAt = [t \in Tasks |-> -1]
    /\ lastGet = [t \in Tasks |-> NoGet]

SkuIdle == skuIn = <<>> /\ skuOut = NoSkuOut

SearchIdle ==
    /\ sArgs = [filters |-> NoFilters,
                currency_code |-> "USD", limit |-> 0,
                discount |-> [given |-> FALSE, pct |-> 0], validate_sku |-> FALSE]
    /\ sPc = "idle"
    /\ sData = NoData
    /\ sParams = NoParams
    /\ sItems = <<>>
    /\ sBroad = NoData
    /\ sBroadParams = NoParams
    /\ sResult = NoResult

DiscIdle == dHeap = <<>> /\ dOrig = <<>> /\ dIn = <<>> /\ dPct = 0 /\ dOuts = <<>>

RecIdle ==
    /\ rArgs = [service_name |-> "", sku_name |-> <<>>, top_n |-> 0,
                currency_code |-> "USD", discount |-> [given |-> FALSE, pct |-> 0]]
    /\ rPc = "idle"
    /\ rTerms = <<>> /\ rDisplay = <<>> /\ rQueries = <<>> /\ rAnswers = <<>>
    /\ rDiscovery = <<>> /\ rRegionData = <<>>
    /\ rResult = NoRecommendation

ToolIdle ==
    /\ tArgs = [op |-> "none"]
    /\ tCatalog = <<>>
    /\ tPc = "idle"
    /\ tCalls = <<>> /\ tAnswers = <<>>
    /\ tLocal = [comparisons |-> <<>>]
    /\ tResult = [error |-> ""]

Init == ReqInit /\ SkuIdle /\ SearchIdle /\ DiscIdle /\ RecIdle /\ ToolIdle
Next == ReqNext
Spec == Init /\ [][Next]_vars

InitSku == ReqIdle /\ SkuInit /\ SearchIdle /\ DiscIdle /\ RecIdle /\ ToolIdle
NextSku == SkuNext
SpecSku == InitSku /\ [][NextSku]_vars

InitSearch == ReqIdle /\ SkuIdle /\ SearchInit /\ DiscIdle /\ RecIdle /\ ToolIdle
NextSearch == SearchNext
SpecSearch == InitSearch /\ [][NextSearch]_vars

InitDiscount == ReqIdle /\ SkuIdle /\ SearchIdle /\ DiscInit /\ RecIdle /\ ToolIdle
NextDiscount == ApplyDiscount
SpecDiscount == InitDiscount /\ [][NextDiscount]_vars

InitRecommend == ReqIdle /\ SkuIdle /\ SearchIdle /\ DiscIdle /\ RecInit /\ ToolIdle
NextRecommend ==
    \/ RecommendStart
    \/ \E data \in DiscoveryAnswers : DiscoveryResponse(data)
    \/ DiscoveryFails
SpecRecommend == InitRecommend /\ [][NextRecommend]_vars

\* one call of one of the operations that price a selection of the catalog
InitTools ==
    /\ ReqIdle /\ SkuIdle /\ SearchIdle /\ DiscIdle
    /\ (RecInit /\ ToolIdle) \/ (RecIdle /\ ToolInit)
NextTools ==
    \/ RecommendStart
    \/ \E data \in DiscoveryAnswers : DiscoveryResponse(data)
    \/ DiscoveryFails
    \/ ToolCall
    \/ CompareResponse
    \/ CompareRegionFails
    \/ EstimateResponse
    \/ DiscoverSkusResponse
    \/ ResolveResponse
    \/ ToolFails
SpecTools == InitTools /\ [][NextTools]_vars

-----------------------------------------------------------------------------
(* Claims about the request layer, checked under Spec *)

\* The current/last _make_request of task t has returned or raised.
Completed(t) == result[t] \notin {"none", "cancelled"}

AllRateLimited(log) == log # <<>> /\ \A i \in 1..Len(log) : log[i] = "429"

\* C1: one call of _make_request issues at most max_retries + 1 GETs; when
\* every attempt is answered with HTTP 429 the call raises the 429 error of the
\* final attempt, after exactly max_retries + 1 attempts and max_retries waits.
C1_RetryBudget ==
    \A t \in Tasks :
        /\ gets[t] <= maxRetries + 1
        /\ (Completed(t) /\ AllRateLimited(resps[t])) =>
              /\ result[t] = "raise429"
              /\ raisedAt[t] = maxRetries
              /\ gets[t] = maxRetries + 1
              /\ Len(resps[t]) = maxRetries + 1
              /\ Len(waits[t]) = maxRetries

C1_Witness ==
    \E t \in Tasks :
        /\ maxRetries = MAX_RETRIES
        /\ Completed(t) /\ AllRateLimited(resps[t])
        /\ result[t] = "raise429"
        /\ Len(waits[t]) = MAX_RETRIES

\* C2: when the first k responses are 429 and the next is a 200, the call
\* returns that response's JSON after exactly k + 1 attempts and k waits, the
\* i-th wait lasting RATE_LIMIT_RETRY_BASE_WAIT * i seconds.
C2_RetryThenSuccess ==
    \A t \in Tasks :
        (/\ Completed(t)
         /\ resps[t] # <<>>
         /\ Last(resps[t]) \in Bodies
         /\ \A i \in 1..(Len(resps[t]) - 1) : resps[t][i] = "429")
        => /\ result[t] = "json"
           /\ ret[t] = Last(resps[t])
           /\ gets[t] = Len(resps[t])
           /\ Len(waits[t]) = Len(resps[t]) - 1
           /\ \A i \in 1..Len(waits[t]) : waits[t][i] = RATE_LIMIT_RETRY_BASE_WAIT * i

C2_Witness ==
    \E t \in Tasks :
        /\ result[t] = "json"
        /\ Len(resps[t]) = 2 /\ resps[t][1] = "429" /\ ret[t] = resps[t][2]
        /\ waits[t] = <<RATE_LIMIT_RETRY_BASE_WAIT>>

\* C3: an attempt that ends in a non-2xx status other than 429, or in a network
\* error, ends the call at once with that error: it is the last attempt, and
\* the only waits of the call are those of the 429s before it.
C3_NoRetryOnOtherErrors ==
    \A t \in Tasks : \A i \in 1..Len(resps[t]) :
        resps[t][i] \in {"httperr", "neterr"} =>
            /\ i = Len(resps[t])
            /\ pc[t] = "ready"
            /\ result[t] = (IF resps[t][i] = "httperr" THEN "raiseHttp" ELSE "raiseNet")
            /\ raisedAt[t] = i - 1
            /\ gets[t] = i
            /\ Len(waits[t]) = i - 1

C3_Witness ==
    \E t \in Tasks :
        /\ Len(resps[t]) = 2 /\ resps[t][1] = "429" /\ resps[t][2] = "httperr"
        /\ result[t] = "raiseHttp"
        /\ Len(waits[t]) = 1

\* C4: on a server whose scope was never entered, every _make_request fails
\* with the "not initialized" error and issues no GET.
C4_NotInitialized ==
    /\ created = 0 =>
          /\ \A t \in Tasks :
                pc[t] = "ready" /\ gets[t] = 0 /\ result[t] \in {"none", "notInit"}
          /\ (nreq > 0 => \E t \in Tasks : result[t] = "notInit")
    /\ \A t \in Tasks : result[t] = "notInit" => gets[t] = 0 /\ resps[t] = <<>>

C4_Witness == created = 0 /\ \E t \in Tasks : result[t] = "notInit"

\* C5: every session a tool call opened on entering the scope is closed once
\* that tool call has left the scope, also when two tool calls overlap.
C5_SessionClosedOnReturn ==
    \A t \in Tasks : (~inScope[t] /\ mine[t] # 0) => mine[t] \notin open

\* C6: a tool call's requests are issued only on the session that call opened,
\* while that session is open, and it stays open while the request is awaited.
C6_RequestsOnOwnOpenSession ==
    \A t \in Tasks :
        (inScope[t] /\ lastGet[t] # NoGet) =>
            /\ lastGet[t].sid = mine[t]
            /\ lastGet[t].wasOpen
            /\ pc[t] = "get" => lastGet[t].sid \in open

-----------------------------------------------------------------------------
(* Claims about normalize_sku_name, checked under SpecSku *)

\* s begins with the lower-case prefix p in some spelling of upper and lower case
HasPrefixAnyCase(s, p) == Len(s) >= Len(p) /\ Lower(SubSeq(s, 1, Len(p))) = p

HasTierPrefixAnyCase(s) == HasPrefixAnyCase(s, standard_) \/ HasPrefixAnyCase(s, basic_)

\* s without one leading "Standard_" or "Basic_", in any letter case
StrippedAnyCase(s) ==
    IF HasPrefixAnyCase(s, standard_) THEN SubSeq(s, Len(standard_) + 1, Len(s))
    ELSE IF HasPrefixAnyCase(s, basic_) THEN SubSeq(s, Len(basic_) + 1, Len(s))
    ELSE s

NoDuplicates(seq) == \A i, j \in 1..Len(seq) : i # j => seq[i] # seq[j]

\* C7: an input that is empty after trimming whitespace gives no search terms
\* and the empty display name.
C7_BlankInputGivesNothing ==
    (skuOut.done /\ Strip(skuIn) = <<>>) =>
        skuOut.terms = <<>> /\ skuOut.display = <<>>

\* C8: a leading "Standard_" or "Basic_" is stripped whatever its letter case,
\* and at most once.
C8_PrefixStrippedAnyCase ==
    (skuOut.done /\ Strip(skuIn) # <<>>) =>
        LET n == StrippedAnyCase(Strip(skuIn))
        IN /\ skuOut.display = Replace(n, "_", " ")
           /\ skuOut.terms # <<>>
           /\ skuOut.terms[1] = Replace(n, " ", "_")

-----------------------------------------------------------------------------
(* Claims about search_azure_prices, checked under SpecSearch *)

\* the price fields aside, the same record
SameButPrice(a, b) ==
    /\ a.meterId = b.meterId
    /\ a.skuName = b.skuName
    /\ a.hasPrice = b.hasPrice
    /\ Len(a.savingsPlan) = Len(b.savingsPlan)

\* C10: the result's items are, one for one and in upstream order, the first
\* min(limit, n) of the n upstream items, with or without a discount, and
\* count is the number of items returned.
C10_FirstLimitItemsInOrder ==
    sPc = "done" =>
        LET k == Min(sArgs.limit, Len(sData.Items))
        IN /\ Len(sResult.items) = k
           /\ sResult.count = Len(sResult.items)
           /\ \A i \in 1..k : SameButPrice(sResult.items[i], sData.Items[i])
           /\ ~sResult.hasDiscountApplied =>
                 sResult.items = SubSeq(sData.Items, 1, k)

C10_Witness ==
    /\ sPc = "done"
    /\ sResult.hasDiscountApplied
    /\ sArgs.limit = 2 /\ Len(sData.Items) = 3
    /\ sResult.count = 2
    /\ sResult.items[1].hasOriginal /\ ~sResult.items[2].hasOriginal

\* the call had a SKU substring filter and validation was not disabled
SkuFiltered == sArgs.validate_sku /\ sArgs.filters.sku_name # <<>>

\* C11: no result carries both a sku_validation and a clarification entry, and
\* a result carries either only when the call had a SKU substring filter and
\* validation was not disabled.
C11_ValidationXorClarification ==
    sPc = "done" =>
        /\ ~(sResult.info.hasSkuValidation /\ sResult.info.hasClarification)
        /\ (sResult.info.hasSkuValidation \/ sResult.info.hasClarification) => SkuFiltered

C11_Witness ==
    /\ sPc = "done"
    /\ sResult.info.hasClarification /\ ~sResult.info.hasSkuValidation
    /\ SkuFiltered
    /\ Len(sData.Items) = 11

\* the SKU names of the first ClarificationSamples items of a list
FirstNames(items) ==
    [i \in 1..Min(ClarificationSamples, Len(items)) |-> items[i].skuName]

\* C12: a SKU-filtered search with validation enabled that receives more than
\* 10 raw items from the catalog returns, for any caller limit, a clarification
\* whose suggestions are the SKU names of the first 5 items (exactly 5 names
\* for a 15-item response), and no validation entry.
C12_ClarificationOnManyRawItems ==
    (sPc = "done" /\ SkuFiltered /\ Len(sData.Items) > ClarificationThreshold) =>
        /\ sResult.info.hasClarification
        /\ ~sResult.info.hasSkuValidation
        /\ sResult.info.clarificationSuggestions = FirstNames(sData.Items)
        /\ Len(sData.Items) = 15 => Len(sResult.info.clarificationSuggestions) = 5

\* positions of the broader items that match the request and whose SKU name
\* no earlier matching item carries
FirstSeenMatches(sku, items) ==
    LET Matching(i) == items[i].skuName # <<>> /\ PartiallyMatches(sku, items[i].skuName)
    IN {i \in 1..Len(items) :
          /\ Matching(i)
          /\ \A j \in 1..(i - 1) : ~(Matching(j) /\ items[j].skuName = items[i].skuName)}

\* C13: a SKU-filtered search with validation enabled that returns no item
\* carries a validation entry with found = false; its suggestions are the
\* matching SKUs of the broader query (same service, no SKU filter, limit 100),
\* one per SKU name in first-seen order, at most 5 of them.
C13_SuggestionsFromBroaderSearch ==
    (sPc = "done" /\ SkuFiltered /\ sItems = <<>>) =>
        LET sku == sArgs.filters.sku_name
            service == sArgs.filters.service_name
            b == sBroad.Items
            F == FirstSeenMatches(sku, b)
            sg == sResult.info.suggestions
        IN /\ sResult.info.hasSkuValidation
           /\ ~sResult.info.found
           /\ sResult.info.original_sku = sku
           /\ Len(sg) = Min(5, Cardinality(F))
           /\ \A k \in 1..Len(sg) :
                 \E i \in F :
                    /\ Cardinality({j \in F : j < i}) = k - 1
                    /\ sg[k].sku_name = b[i].skuName
                    /\ sg[k].price = (IF b[i].hasPrice THEN b[i].retailPrice ELSE 0)
           /\ service # "" =>
                 /\ sBroadParams.filter = <<"serviceName">>
                 /\ sBroadParams.values.service_name = service
                 /\ sBroadParams.hasTop /\ sBroadParams.top = 100
           /\ service = "" => sBroadParams = NoParams /\ sg = <<>>

\* three distinct matching SKUs among repeated, unnamed and unrelated ones
C13_Witness ==
    /\ sPc = "done" /\ SkuFiltered /\ sItems = <<>>
    /\ Len(sBroad.Items) = 7
    /\ Len(sResult.info.suggestions) = 3
    /\ sResult.info.suggestions[1].sku_name = SkuV("1")
    /\ sResult.info.suggestions[2].sku_name = SkuV("2")
    /\ sResult.info.suggestions[3].sku_name = SkuV("3")

\* more than five distinct matching SKUs: the first five are kept
C13_WitnessCapped ==
    /\ sPc = "done" /\ SkuFiltered /\ sItems = <<>>
    /\ Len(sBroad.Items) = 8
    /\ Len(sResult.info.suggestions) = 5
    /\ sResult.info.suggestions[5].sku_name = SkuV("5")

-----------------------------------------------------------------------------
(* Claims about _apply_discount_to_items, checked under SpecDiscount *)

\* r is n / 100 rounded to the nearest integer, ties to the even one
IsRounded100(r, n) ==
    /\ 100 * r - n \in -50..50
    /\ 100 * r - n \in {-50, 50} => r % 2 = 0

\* the price fields of the output record y for the input record x
PriceAsClaimed(x, y, p) ==
    IF x.hasPrice /\ x.retailPrice > 0
      THEN /\ y.hasPrice
           /\ IsRounded100(y.retailPrice, x.retailPrice * (100 - p))
           /\ y.hasOriginal /\ y.originalPrice = x.retailPrice
      ELSE /\ y.hasPrice = x.hasPrice /\ y.retailPrice = x.retailPrice
           /\ y.hasOriginal = x.hasOriginal /\ y.originalPrice = x.originalPrice

\* C14: for p in (0,100], every record and every nested savings-plan entry with
\* retailPrice > 0 comes back with retailPrice = round(original * (1 - p/100), 6)
\* and the original in originalPrice; every record or plan entry whose price is
\* absent, zero or negative comes back unchanged.  A price of 100 units at 20%
\* gives 80 units with the original 100.
C14_DiscountOnPositivePricesOnly ==
    \A k \in 1..Len(dOuts) :
        /\ Len(dOuts[k]) = Len(dIn)
        /\ \A i \in 1..Len(dIn) :
              LET x == ItemValue(dOrig, dIn[i])
                  y == ItemValue(dHeap, dOuts[k][i])
              IN /\ y.skuName = x.skuName
                 /\ PriceAsClaimed(x, y, dPct)
                 /\ Len(y.savingsPlan) = Len(x.savingsPlan)
                 /\ \A j \in 1..Len(x.savingsPlan) :
                       /\ y.savingsPlan[j].term = x.savingsPlan[j].term
                       /\ PriceAsClaimed(x.savingsPlan[j], y.savingsPlan[j], dPct)
                 /\ (x.retailPrice = 100 /\ dPct = 20) =>
                       y.retailPrice = 80 /\ y.originalPrice = 100

\* C16: a call leaves every dict of its input as it was, and two calls on the
\* same input return lists of equal records.
C16_InputUntouched ==
    /\ Len(dHeap) >= Len(dOrig)
    /\ \A a \in 1..Len(dOrig) : dHeap[a] = dOrig[a]
    /\ \A k, l \in 1..Len(dOuts) :
          ListValue(dHeap, dOuts[k]) = ListValue(dHeap, dOuts[l])

C16_Witness ==
    /\ Len(dOuts) = 2
    /\ dOuts[1] # dOuts[2]
    /\ \E i \in 1..Len(dIn) :
          LET y == ItemValue(dHeap, dOuts[2][i])
          IN /\ y.hasOriginal /\ y.retailPrice # y.originalPrice
             /\ y.savingsPlan # <<>> /\ y.savingsPlan[1].hasOriginal
             /\ ~ItemValue(dHeap, dIn[i]).hasOriginal

-----------------------------------------------------------------------------
(* Claims about recommend_regions, checked under SpecRecommend *)

\* C17: in every result, each region code appears in at most one
\* recommendation.
C17_OneRecommendationPerRegion ==
    rPc = "done" =>
        /\ NoDuplicates([i \in 1..Len(rResult.recommendations) |->
                            rResult.recommendations[i].region])
        /\ NoDuplicates([i \in 1..Len(rRegionData) |-> rRegionData[i].region])

C17_Witness ==
    /\ rPc = "done"
    /\ Len(rDiscovery) = 3
    /\ \A i \in 1..3 : rDiscovery[i].armRegionName = "eastus" /\ PriceOf(rDiscovery[i]) > 0
    /\ Len(rResult.recommendations) = 1

\* the prices of the region's On-Demand items with a price above 0
OnDemandPrices(items, region) ==
    {PriceOf(items[i]) : i \in {j \in 1..Len(items) :
        /\ items[j].armRegionName = region
        /\ PricingType(items[j].skuName, items[j].meterName) = "On-Demand"
        /\ PriceOf(items[j]) > 0}}

\* the price of a recommendation before any discount
CatalogPrice(rec) == IF rec.hasOriginal THEN rec.original_price ELSE rec.retail_price

\* C18: when a region has an On-Demand item with price > 0, the candidate kept
\* for the region is an On-Demand item, whatever the prices and positions of
\* its Spot / Low Priority items, and its price is the lowest of the region's
\* On-Demand prices.
C18_OnDemandFirstThenCheapest ==
    rPc = "done" =>
        \A i \in 1..Len(rDiscovery) :
            LET region == rDiscovery[i].armRegionName
                prices == OnDemandPrices(rDiscovery, region)
            IN (region # "" /\ prices # {}) =>
                  /\ \E k \in 1..Len(rRegionData) :
                        /\ rRegionData[k].region = region
                        /\ rRegionData[k].pricing_type = "On-Demand"
                        /\ rRegionData[k].retail_price \in prices
                        /\ \A q \in prices : rRegionData[k].retail_price <= q
                  /\ \A k \in 1..Len(rResult.recommendations) :
                        LET rec == rResult.recommendations[k]
                        IN rec.region = region =>
                              /\ rec.pricing_type = "On-Demand"
                              /\ CatalogPrice(rec) \in prices
                              /\ \A q \in prices : CatalogPrice(rec) <= q

\* Spot at 0.10 first, then On-Demand at 1.00 and at 0.50: On-Demand at 0.50 stays
C18_Witness ==
    /\ rPc = "done"
    /\ ~rArgs.discount.given
    /\ Len(rDiscovery) = 3
    /\ \A i \in 1..3 : rDiscovery[i].armRegionName = "eastus"
    /\ PricingType(rDiscovery[1].skuName, rDiscovery[1].meterName) = "Spot"
    /\ rDiscovery[1].retailPrice = 100000
    /\ rDiscovery[2].retailPrice = 1000000
    /\ rDiscovery[3].retailPrice = 500000
    /\ Len(rResult.recommendations) = 1
    /\ rResult.recommendations[1].retail_price = 500000
    /\ rResult.recommendations[1].pricing_type = "On-Demand"

\* C19 as stated: without a discount or with any discount percentage in
\* (0,100], every returned recommendation has a price strictly greater than 0.
C19_ReturnedPricesPositive ==
    rPc = "done" =>
        \A k \in 1..Len(rResult.recommendations) :
            rResult.recommendations[k].retail_price > 0

\* C19 as amended: every returned recommendation comes from a catalog item
\* with a price strictly greater than 0; without a discount this is the
\* returned price, with a discount it is original_price and the returned price
\* is not negative.
C19_CatalogPricesPositive ==
    rPc = "done" =>
        \A k \in 1..Len(rResult.recommendations) :
            LET rec == rResult.recommendations[k]
            IN /\ CatalogPrice(rec) > 0
               /\ rec.retail_price >= 0
               /\ rec.hasOriginal = DiscountRequested(rArgs.discount)
               /\ \E i \in 1..Len(rDiscovery) :
                     /\ rDiscovery[i].armRegionName = rec.region
                     /\ rDiscovery[i].hasPrice
                     /\ rDiscovery[i].retailPrice = CatalogPrice(rec)

C19_Witness ==
    /\ rPc = "done"
    /\ rArgs.discount.given /\ rArgs.discount.pct = 100
    /\ \E i \in 1..Len(rDiscovery) :
          rDiscovery[i].armRegionName = "westus" /\ rDiscovery[i].retailPrice < 0
    /\ Len(rResult.recommendations) = 1
    /\ rResult.recommendations[1].region = "westus"
    /\ rResult.recommendations[1].retail_price = 0
    /\ rResult.recommendations[1].original_price = 200000

NoPositivePrice(items) == \A i \in 1..Len(items) : ~(PriceOf(items[i]) > 0)

\* C21: when no pricing is found (no variant returned an item, or no returned
\* item has a price above 0), recommend_regions returns a result with an error
\* field, no recommendation, the display SKU name and the list of the search
\* terms it tried.
C21_NotFoundCarriesSearchTerms ==
    (rPc = "done" /\ NoPositivePrice(rDiscovery)) =>
        /\ rResult.error # ""
        /\ rResult.recommendations = <<>>
        /\ rResult.sku_name = rDisplay
        /\ rResult.hasSearchTerms
        /\ rResult.search_terms_tried = rTerms

\* the price recommend_regions reports for a candidate of region_data
FinalPrice(rec) ==
    IF rArgs.discount.given /\ rArgs.discount.pct > 0
      THEN DiscountedPrice(rec.retail_price, rArgs.discount.pct)
      ELSE rec.retail_price

\* C22: for top_n >= 0 the recommendations are in non-decreasing order of
\* their (possibly discounted) price, there are min(top_n, total_regions_found)
\* of them, and no region left out is cheaper than a returned one.
C22_TopNCheapestInOrder ==
    (rPc = "done" /\ rResult.error = "" /\ rArgs.top_n >= 0) =>
        LET recs == rResult.recommendations
            returned == {recs[i].region : i \in 1..Len(recs)}
        IN /\ rResult.total_regions_found = Len(rRegionData)
           /\ Len(recs) = Min(rArgs.top_n, rResult.total_regions_found)
           /\ rResult.showing_top = Len(recs)
           /\ \A i, j \in 1..Len(recs) :
                 i < j => recs[i].retail_price <= recs[j].retail_price
           /\ \A i \in 1..Len(recs) : \E k \in 1..Len(rRegionData) :
                 /\ rRegionData[k].region = recs[i].region
                 /\ FinalPrice(rRegionData[k]) = recs[i].retail_price
           /\ \A k \in 1..Len(rRegionData) :
                 rRegionData[k].region \notin returned =>
                    \A i \in 1..Len(recs) :
                       recs[i].retail_price <= FinalPrice(rRegionData[k])

\* top_n 1 of two regions, the cheaper of which was discovered last
C22_Witness ==
    /\ rPc = "done"
    /\ rArgs.top_n = 1
    /\ Len(rRegionData) = 2
    /\ Len(rResult.recommendations) = 1
    /\ rResult.recommendations[1].region = rRegionData[2].region
    /\ FinalPrice(rRegionData[2]) < FinalPrice(rRegionData[1])

\* top_n 0 of a ranking that is not empty
C22_WitnessZero ==
    /\ rPc = "done"
    /\ rArgs.top_n = 0
    /\ rRegionData # <<>>
    /\ rResult.recommendations = <<>>
    /\ rResult.showing_top = 0

\* s is ((max - price) / max) * 100 rounded to two decimals (half to even),
\* in hundredths of a percent; the prices are taken in units of 0.001, which
\* every price of the model is a multiple of
IsSavings(s, price, max) ==
    LET unit == 1000
        m == max \div unit
        d == (max - price) \div unit
    IN IF max > 0
         THEN /\ max % unit = 0 /\ price % unit = 0
              /\ 2 * (s * m - d * 10000) <= m
              /\ 2 * (d * 10000 - s * m) <= m
              /\ (2 * (s * m - d * 10000) = m \/ 2 * (d * 10000 - s * m) = m)
                     => s % 2 = 0
         ELSE s = 0

\* C23: savings_vs_most_expensive of every recommendation and the summary are
\* computed against all surviving regions, not the top-N slice: savings is
\* (maxPrice - price) / maxPrice * 100 with maxPrice the highest price of all
\* regions, the summary names the cheapest and the most expensive of all
\* regions and the savings of the cheapest one.
C23_SavingsAgainstFullRanking ==
    (rPc = "done" /\ rResult.error = "") =>
        LET recs == rResult.recommendations
            all == {FinalPrice(rRegionData[k]) : k \in 1..Len(rRegionData)}
            maxPrice == CHOOSE p \in all : \A q \in all : q <= p
            minPrice == CHOOSE p \in all : \A q \in all : p <= q
        IN /\ \A i \in 1..Len(recs) :
                 /\ recs[i].hasSavings
                 /\ IsSavings(recs[i].savings_vs_most_expensive,
                              recs[i].retail_price, maxPrice)
           /\ rResult.hasSummary
           /\ rResult.total_regions_found = Len(rRegionData)
           /\ rResult.most_expensive_price = maxPrice
           /\ rResult.cheapest_price = minPrice
           /\ \E k \in 1..Len(rRegionData) :
                 /\ rRegionData[k].region = rResult.cheapest_region
                 /\ FinalPrice(rRegionData[k]) = minPrice
           /\ \E k \in 1..Len(rRegionData) :
                 /\ rRegionData[k].region = rResult.most_expensive_region
                 /\ FinalPrice(rRegionData[k]) = maxPrice
           /\ IsSavings(rResult.max_savings_percentage, minPrice, maxPrice)

\* prices 1.0, 2.0 and 4.0 with top_n 1: the one recommendation saves 75 %
C23_Witness ==
    /\ rPc = "done"
    /\ rArgs.top_n = 1
    /\ ~rArgs.discount.given
    /\ {rRegionData[k].retail_price : k \in 1..Len(rRegionData)}
          = {1000000, 2000000, 4000000}
    /\ Len(rResult.recommendations) = 1
    /\ rResult.recommendations[1].savings_vs_most_expensive = 7500
    /\ rResult.most_expensive_price = 4000000
    /\ rResult.max_savings_percentage = 7500
    /\ rResult.total_regions_found = 3

\* prices 1.0, 2.0 and 4.0 with top_n 10: savings 75 %, 50 % and 0 %
C23_WitnessAll ==
    /\ rPc = "done"
    /\ rArgs.top_n = 10
    /\ ~rArgs.discount.given
    /\ [i \in 1..Len(rResult.recommendations) |->
           rResult.recommendations[i].retail_price] = <<1000000, 2000000, 4000000>>
    /\ [i \in 1..Len(rResult.recommendations) |->
           rResult.recommendations[i].savings_vs_most_expensive] = <<7500, 5000, 0>>

\* region, tier and price of the candidates kept for a list of items
KeptTierAndPrice(items) ==
    LET region_data == BuildRegionData(items, <<>>)
    IN {<<region_data[k].region, region_data[k].pricing_type,
          region_data[k].retail_price>> : k \in 1..Len(region_data)}

\* C27: the candidate kept for a region is a minimum under a total order, so
\* its tier and price are the same for every order in which the catalog
\* returns the same items.
C27_CandidateIndependentOfOrder ==
    rPc = "done" =>
        \A f \in Permutations(1..Len(rDiscovery)) :
            KeptTierAndPrice([i \in 1..Len(rDiscovery) |-> rDiscovery[f[i]]])
               = KeptTierAndPrice(rDiscovery)

-----------------------------------------------------------------------------
(* Claim about the connection scope, checked under Spec *)

\* C29: the server holds a session handle only while its connection scope is
\* entered, and a _make_request made after the scope was exited fails with
\* the "not initialized" error without trying a request on the closed session.
C29_NoSessionAfterScopeExit ==
    /\ (\A t \in Tasks : ~inScope[t]) => session = 0
    /\ \A t \in Tasks :
          (~inScope[t] /\ Completed(t) /\ lastGet[t].sid # 0 /\ ~lastGet[t].wasOpen)
              => result[t] = "notInit"

-----------------------------------------------------------------------------
(* Claims about the operations that price a selection of the catalog,
   checked under SpecTools *)

AzureAIServices == <<"A", "z", "u", "r", "e", " ", "A", "I", " ", "s", "e", "r", "v", "i", "c", "e", "s">>
AzureKubernetesService == <<"A", "z", "u", "r", "e", " ", "K", "u", "b", "e", "r", "n", "e", "t", "e", "s", " ", "S", "e", "r", "v", "i", "c", "e">>
AzureAppService == <<"A", "z", "u", "r", "e", " ", "A", "p", "p", " ", "S", "e", "r", "v", "i", "c", "e">>
AzureFunctions == <<"A", "z", "u", "r", "e", " ", "F", "u", "n", "c", "t", "i", "o", "n", "s">>
AzureOpenAI == <<"A", "z", "u", "r", "e", " ", "O", "p", "e", "n", "A", "I">>
ApplicationGateway == <<"A", "p", "p", "l", "i", "c", "a", "t", "i", "o", "n", " ", "G", "a", "t", "e", "w", "a", "y">>

\* what the table gives for the service hints of the model: whether the hint
\* is a user term of the table, the service it names then, and the services
\* whose user terms contain the hint or are contained in it
SimilarPlan(hint) ==
    CASE hint \in {<<"a", "i">>, <<"A", "I">>} ->
            [mapped |-> 1, name |-> AzureAIServices,
             partial |-> {AzureAIServices, AzureKubernetesService, AzureOpenAI}]
      [] hint = <<"a", "p", "p">> ->
            [mapped |-> 0, name |-> <<>>,
             partial |-> {AzureAppService, AzureFunctions, ApplicationGateway}]
      [] hint = AzureAIServices ->
            [mapped |-> 0, name |-> <<>>, partial |-> {AzureAIServices}]
      [] OTHER -> [mapped |-> 0, name |-> <<>>, partial |-> {}]

\* C24: _find_similar_services probes one at a time in the order exact
\* mapping, partial mapping, broad scan: it returns with match_type
\* exact_mapping right after the exact-mapping probe when that probe returns
\* items, it issues the broad query only if no partial-mapping probe returned
\* items, and when no probe finds anything it returns no items, no suggestion
\* and match_type suggestions_only.
C24_ProbesInOrder ==
    (tArgs.op = "discover_service_skus" /\ Len(tCalls) >= 2) =>
        LET plan == SimilarPlan(tArgs.service_name)
            m == plan.mapped
            n == Cardinality(plan.partial)
            answered(k) == k <= Len(tAnswers) /\ ~tAnswers[k].failed
            found(k) == answered(k) /\ tAnswers[k].items # <<>>
            similar == tLocal.similar
        IN /\ Len(tAnswers) = (IF tPc \in {"done", "raised"}
                                 THEN Len(tCalls) ELSE Len(tCalls) - 1)
           /\ \A k \in 1..(Len(tCalls) - 1) : answered(k)
           /\ ~found(1)
           /\ m = 1 => /\ tCalls[2].service_name = plan.name
                       /\ tCalls[2].limit = tArgs.limit
           /\ (m = 1 /\ found(2)) =>
                 /\ tPc = "done"
                 /\ Len(tCalls) = 2
                 /\ similar.returned
                 /\ similar.match_type = "exact_mapping"
                 /\ similar.items = tAnswers[2].items
           /\ \A k \in (2 + m)..Min(Len(tCalls), 1 + m + n) :
                 /\ tCalls[k].service_name \in plan.partial
                 /\ tCalls[k].limit = 5
                 /\ \A j \in (2 + m)..(k - 1) :
                       tCalls[j].service_name # tCalls[k].service_name
           /\ Len(tCalls) >= 2 + m + n =>
                 /\ tCalls[2 + m + n].service_name = <<>>
                 /\ tCalls[2 + m + n].limit = 100
                 /\ \A j \in (2 + m)..(1 + m + n) : ~found(j)
           /\ \A k \in (3 + m + n)..Len(tCalls) :
                 /\ tCalls[k].service_name # <<>>
                 /\ tCalls[k].limit = 3
           /\ (tPc = "done" /\ ~(m = 1 /\ found(2))) =>
                 /\ similar.returned
                 /\ similar.match_type = "suggestions_only"
                 /\ similar.items = <<>>
                 /\ Len(tCalls) >= 1 + m + n
                 /\ (\A j \in (2 + m)..(1 + m + n) : ~found(j))
                        => Len(tCalls) >= 2 + m + n
                 /\ (\A j \in 2..Len(tCalls) : ~found(j)) => similar.suggestions = <<>>
                 /\ \A j \in 2..Len(tCalls) :
                       (found(j) /\ j # 2 + m + n) =>
                          \E i \in 1..Len(similar.suggestions) :
                             similar.suggestions[i].service_name = tCalls[j].service_name

\* "ai" on an empty catalog: the exact-mapping probe, the three
\* partial-mapping probes and the broad query find nothing
C24_Witness ==
    /\ tArgs.op = "discover_service_skus"
    /\ tArgs.service_name = <<"a", "i">>
    /\ tPc = "done"
    /\ Len(tCalls) = 6
    /\ tCalls[2].service_name = AzureAIServices
    /\ {tCalls[3].service_name, tCalls[4].service_name, tCalls[5].service_name}
          = {AzureAIServices, AzureKubernetesService, AzureOpenAI}
    /\ tCalls[6].service_name = <<>>
    /\ tLocal.similar.match_type = "suggestions_only"
    /\ tLocal.similar.suggestions = <<>>

\* the exact-mapping probe returns items
C24_WitnessExactMapping ==
    /\ tArgs.op = "discover_service_skus"
    /\ tPc = "done"
    /\ Len(tCalls) = 2
    /\ tLocal.similar.match_type = "exact_mapping"
    /\ tLocal.similar.items # <<>>

\* a partial-mapping probe returns items: no broad query
C24_WitnessPartial ==
    /\ tArgs.op = "discover_service_skus"
    /\ tArgs.service_name = <<"a", "p", "p">>
    /\ tPc = "done"
    /\ Len(tCalls) = 4
    /\ Len(tLocal.similar.suggestions) = 1
    /\ tLocal.similar.suggestions[1].service_name = AzureAppService

\* the broad query finds a service, which is probed
C24_WitnessBroad ==
    /\ tArgs.op = "discover_service_skus"
    /\ tPc = "done"
    /\ Len(tCalls) = 3
    /\ tCalls[2].service_name = <<>>
    /\ tCalls[3].limit = 3
    /\ Len(tLocal.similar.suggestions) = 1

\* C25: a failure of one of an operation's catalog fetches leaves the
\* operation as a fault: no operation returns a result after one of its
\* fetches has failed.
C25_FetchFailuresPropagate ==
    /\ tPc = "done" => \A k \in 1..Len(tAnswers) : ~tAnswers[k].failed
    /\ rPc = "done" => Len(rAnswers) = Len(rQueries)

\* C26: when discover_service_skus is called with a region, every price entry
\* and every region of every SKU of its result is of that region.
C26_ResultWithinRegion ==
    (tArgs.op = "discover_service_skus" /\ tPc = "done" /\ tArgs.region # "") =>
        \A s \in tResult.skus :
            /\ \A i \in 1..Len(s.prices) : s.prices[i].region = tArgs.region
            /\ s.regions \subseteq {tArgs.region}

\* C28: with a discount in (0, 100], every price compare_prices,
\* recommend_regions and estimate_costs return is the catalog price discounted
\* once: no search is issued with a discount, and the original price reported
\* is the catalog price.
C28_DiscountedOnce ==
    /\ (tPc = "done" /\ tArgs.op \in {"compare_prices", "estimate_costs"}
        /\ tArgs.discount.given /\ tArgs.discount.pct > 0) =>
          /\ \A k \in 1..Len(tCalls) : ~tCalls[k].discount.given
          /\ tArgs.op = "compare_prices" =>
                \A i \in 1..Len(tResult.comparisons) :
                    LET c == tResult.comparisons[i]
                    IN \E k \in 1..Len(tCatalog) :
                          /\ tCatalog[k].serviceName = tArgs.service_name
                          /\ tCatalog[k].armRegionName = c.region
                          /\ tCatalog[k].skuName = c.sku_name
                          /\ c.retail_price = DiscountedPrice(tCatalog[k].retailPrice,
                                                              tArgs.discount.pct)
                          /\ c.hasOriginal => c.original_price = tCatalog[k].retailPrice
                          /\ tCatalog[k].retailPrice # 0 => c.hasOriginal
          /\ (tArgs.op = "estimate_costs" /\ tResult.error = "") =>
                \E k \in 1..Len(tCatalog) :
                    /\ tCatalog[k].serviceName = tArgs.service_name
                    /\ tCatalog[k].armRegionName = tResult.region
                    /\ tCatalog[k].skuName = tResult.sku_name
                    /\ tResult.hasOriginal
                    /\ tResult.original_hourly_rate = tCatalog[k].retailPrice
                    /\ tResult.hourly_rate = DiscountedPrice(tCatalog[k].retailPrice,
                                                             tArgs.discount.pct)
                    /\ Len(tResult.savings_plans) = Len(tCatalog[k].savingsPlan)
                    /\ \A i \in 1..Len(tResult.savings_plans) :
                          /\ tResult.savings_plans[i].hasOriginal
                          /\ tResult.savings_plans[i].original_hourly_rate
                                = tCatalog[k].savingsPlan[i].retailPrice
                          /\ tResult.savings_plans[i].hourly_rate
                                = DiscountedPrice(tCatalog[k].savingsPlan[i].retailPrice,
                                                  tArgs.discount.pct)
    /\ (rPc = "done" /\ rArgs.discount.given /\ rArgs.discount.pct > 0) =>
          \A i \in 1..Len(rResult.recommendations) :
              LET rec == rResult.recommendations[i]
              IN /\ rec.hasOriginal
                 /\ rec.retail_price = DiscountedPrice(rec.original_price,
                                                       rArgs.discount.pct)
                 /\ \E k \in 1..Len(rDiscovery) :
                       /\ rDiscovery[k].armRegionName = rec.region
                       /\ rDiscovery[k].hasPrice
                       /\ rDiscovery[k].retailPrice = rec.original_price

\* compare_prices over two regions with 10 %: 1.0 becomes 0.9 and 2.0 1.8
C28_Witness ==
    /\ tArgs.op = "compare_prices"
    /\ tPc = "done"
    /\ tArgs.discount.pct = 10
    /\ Len(tResult.comparisons) = 2
    /\ tResult.comparisons[1].retail_price = 900000
    /\ tResult.comparisons[1].original_price = 1000000
    /\ tResult.comparisons[2].retail_price = 1800000
    /\ tResult.comparisons[2].original_price = 2000000

\* estimate_costs with 10 %: the hourly rate 0.2 becomes 0.18 and the plan's
\* 0.15 becomes 0.135
C28_WitnessEstimate ==
    /\ tArgs.op = "estimate_costs"
    /\ tPc = "done"
    /\ tArgs.discount.pct = 10
    /\ tResult.error = ""
    /\ tResult.hourly_rate = 180000
    /\ tResult.original_hourly_rate = 200000
    /\ Len(tResult.savings_plans) = 1
    /\ tResult.savings_plans[1].hourly_rate = 135000

\* recommend_regions with 10 %
C28_WitnessRecommend ==
    /\ rPc = "done"
    /\ rArgs.discount.pct = 10
    /\ rResult.recommendations # <<>>
    /\ rResult.recommendations[1].retail_price = 900000
    /\ rResult.recommendations[1].original_price = 1000000

\* C30: region_filter of every discover_skus result is the region argument
\* of the call (None when no region was given), whatever the catalog returns.
C30_RegionFilterIsArgument ==
    (tArgs.op = "discover_skus" /\ tPc = "done") =>
        tResult.region_filter = tArgs.region

=============================================================================
